---- MODULE Spec2Model ----
(***************************************************************************)
(* A model of the Risk engine of godatadriven/risk-analysis: the Board     *)
(* (src/board.py), its combat round and reinforcements, the Cards hand     *)
(* (src/cards.py), and the Game (src/src/game.py): its win detection with  *)
(* the missions of src/src/missions.py, the initial placement and the      *)
(* phases of a turn; the Random and Basic agents (src/player.py), the      *)
(* rankers (src/ranker.py), the genetic pool (src/src/riskga.py) and the   *)
(* genomes (src/src/genome.py, src/genome.py).                             *)
(*                                                                         *)
(* The board is the list `data` of (tid, pid, n_armies) tuples of the      *)
(* code, kept here as a function on the territory ids 0..41.  Python       *)
(* `assert` statements are modelled as raising AssertionError (the         *)
(* interpreter's default mode).  Random draws (dice, shuffle) are inputs   *)
(* of the actions.                                                         *)
(***************************************************************************)
EXTENDS Integers, Sequences, FiniteSets, TLC

VARIABLES
    n_players,   \* number of players of the board / game
    data,        \* Board.data: [0..41 -> <<tid, pid, n_armies>>], <<>> before create
    missions,    \* Game.missions: [0..n_players-1 -> mission record], <<>> without a game
    cards,       \* Game.cards: [0..n_players-1 -> <<n_inf, n_cav, n_art>>], <<>> without hands
    turn,        \* Game.turn: -1 before the first turn
    players,     \* Game.players: [0..n_players-1 -> the agent's way of deciding], <<>> without agents
    pc,          \* the position of the running Game method, <<>> without a game
    ratings,     \* TrueskillRanker.ratings: [rated player ids -> rating], <<>> without a ranker
    pool,        \* PlayerPool.pool: the list of players, <<>> without a pool
    last         \* the last call made: its name, arguments, random draws, error, result

vars == <<n_players, data, missions, cards, turn, players, pc, ratings, pool, last>>

(***************************************************************************)
(* Program constants.                                                      *)
(***************************************************************************)
NTerritories == 42        \* the literal 42 of Board.create
DiceSides == 6            \* random.randint(1, 6)
MaxAttackDice == 3        \* min(attackers, 3)
MaxDefendDice == 2        \* min(defenders, 2)
MinPlayers == 3           \* the player counts the tests create boards for
MaxPlayers == 6

(***************************************************************************)
(* Bounds of the model.                                                    *)
(***************************************************************************)
MaxSwaps == 1             \* non-trivial exchanges drawn in one random.shuffle
MaxJump == 3              \* how far below i the shuffle's draw j may fall
MaxArmies == 3            \* cap on the armies of one territory in Spec
MaxFighters == 4          \* attackers / defenders handed to fight in SpecFight
MaxGarrison == 2          \* armies on every territory of the boards of SpecWinner
MaxCards == 3             \* cards of one type in a hand of SpecCards
MaxTargets == 2           \* territories an agent of SpecInitialize chooses among

TerritoryIds == 0 .. (NTerritories - 1)

Min(a, b) == IF a <= b THEN a ELSE b

\* last: op, its arguments, the dice thrown (SpecFight), the result of the combat
\* round of an attack (<<def_wins, att_wins>>), the calls made on the board and
\* the hand in order (Game), the exception raised, the value returned
NoCall ==
    [op |-> "none", args |-> <<>>, dice |-> <<>>, fought |-> <<>>,
     trace |-> <<>>, err |-> "none", ret |-> <<>>]

(***************************************************************************)
(* Board: territory methods (src/board.py 41-114).                         *)
(***************************************************************************)
owner(d, territory_id) == d[territory_id][2]

armies(d, territory_id) == d[territory_id][3]

\* set_owner that hands the territory to the player after player_id
set_owner_to_following(d, territory_id, player_id) ==
    [d EXCEPT ![territory_id] = <<territory_id, (player_id + 1) % MinPlayers, armies(d, territory_id)>>]

set_owner(d, territory_id, player_id) ==
    [d EXCEPT ![territory_id] = <<territory_id, player_id, armies(d, territory_id)>>]

\* set_armies with the floor off by one: n >= 0 passes
set_armies_allows_zero(d, territory_id, n) ==
    IF n >= 0
    THEN [data |-> [d EXCEPT ![territory_id] = <<territory_id, d[territory_id][2], n>>],
          err |-> "none"]
    ELSE [data |-> d, err |-> "AssertionError"]

\* assert n > 0, then the record is replaced; a failed assert leaves data alone
set_armies(d, territory_id, n) ==
    IF n > 0
    THEN [data |-> [d EXCEPT ![territory_id] = <<territory_id, owner(d, territory_id), n>>],
          err |-> "none"]
    ELSE [data |-> d, err |-> "AssertionError"]

add_armies(d, territory_id, n) == set_armies(d, territory_id, armies(d, territory_id) + n)

RECURSIVE SumArmies(_, _, _)
SumArmies(d, player_id, tids) ==
    IF tids = {} THEN 0
    ELSE LET t == CHOOSE x \in tids : TRUE
         IN (IF owner(d, t) = player_id THEN armies(d, t) ELSE 0)
            + SumArmies(d, player_id, tids \ {t})

n_armies(d, player_id) == SumArmies(d, player_id, DOMAIN d)

territories_of(d, player_id) == {tid \in DOMAIN d : owner(d, tid) = player_id}

n_territories(d, player_id) == Cardinality(territories_of(d, player_id))

(***************************************************************************)
(* Board.create (src/board.py 24-35).                                      *)
(*   allocation = (range(n_players)*42)[0:42]; random.shuffle(allocation)  *)
(* random.shuffle walks i = len-1 .. 1 and exchanges x[i] with x[j] for a  *)
(* drawn j in 0..i.  `draws` is the function i |-> j of one run.           *)
(***************************************************************************)
allocation(n) == [i \in TerritoryIds |-> i % n]

\* a shuffle that copies x[j] into x[i] and forgets to put x[i] into x[j]
RECURSIVE shuffle_copies(_, _, _)
shuffle_copies(x, i, draws) ==
    IF i < 1 THEN x
    ELSE shuffle_copies([x EXCEPT ![i] = x[draws[i]]], i - 1, draws)

RECURSIVE shuffle(_, _, _)
shuffle(x, i, draws) ==
    IF i < 1 THEN x
    ELSE LET j == draws[i]
         IN shuffle([x EXCEPT ![i] = x[j], ![j] = x[i]], i - 1, draws)

create(n, draws) ==
    LET alloc == shuffle(allocation(n), NTerritories - 1, draws)
    IN [tid \in TerritoryIds |-> <<tid, alloc[tid], 1>>]

\* The draws of a shuffle: j = i everywhere except at most k places, where j
\* falls 1..MaxJump below i.
NoExchange == [i \in 1 .. (NTerritories - 1) |-> i]

RECURSIVE ShuffleDraws(_, _)
ShuffleDraws(k, top) ==
    IF k = 0 THEN {NoExchange}
    ELSE ShuffleDraws(k - 1, top) \cup
         UNION {{[dr EXCEPT ![i] = i - jump] :
                    dr \in ShuffleDraws(k - 1, i - 1), jump \in 1 .. Min(MaxJump, i)} :
                i \in 1 .. top}

(***************************************************************************)
(* SpecCreate: a board is created for 3..6 players.                        *)
(***************************************************************************)
InitCreate ==
    /\ n_players \in MinPlayers .. MaxPlayers
    /\ data = <<>>
    /\ missions = <<>>
    /\ cards = <<>>
    /\ turn = -1
    /\ players = <<>>
    /\ pc = <<>>
    /\ ratings = <<>>
    /\ pool = <<>>
    /\ last = NoCall

Create ==
    /\ data = <<>>
    /\ \E draws \in ShuffleDraws(MaxSwaps, NTerritories - 1) :
          /\ data' = create(n_players, draws)
          /\ last' = [NoCall EXCEPT !.op = "create", !.args = <<n_players>>]
    /\ UNCHANGED <<n_players, missions, cards, turn, players, pc, ratings, pool>>

NextCreate == Create

SpecCreate == InitCreate /\ [][NextCreate]_vars

(***************************************************************************)
(* Combat (src/board.py 366-389).  throw_dice() is random.randint(1, 6);   *)
(* the throws of one fight are its inputs, in the order they are thrown.   *)
(***************************************************************************)
throw_dice == 1 .. DiceSides

Throws(n_dices) == [1 .. n_dices -> throw_dice]

\* sorted(xs, reverse=True), as an insertion sort
RECURSIVE InsertDesc(_, _)
InsertDesc(v, xs) ==
    IF xs = <<>> THEN <<v>>
    ELSE IF v >= Head(xs) THEN <<v>> \o xs
    ELSE <<Head(xs)>> \o InsertDesc(v, Tail(xs))

RECURSIVE sorted_reverse(_)
sorted_reverse(xs) ==
    IF xs = <<>> THEN <<>> ELSE InsertDesc(Head(xs), sorted_reverse(Tail(xs)))

\* zip(a, b): the pairs up to the shorter length
zip(a, b) == [i \in 1 .. Min(Len(a), Len(b)) |-> <<a[i], b[i]>>]

CountOf(xs, v) == Cardinality({i \in DOMAIN xs : xs[i] = v})

\* fight with ties going to the attacker (>= for >)
fight_ties_to_attacker(attackers, defenders, attack_throws, defend_throws) ==
    LET attack_dices == sorted_reverse(attack_throws)
        defend_dices == sorted_reverse(defend_throws)
        pairs == zip(attack_dices, defend_dices)
        wins == [i \in DOMAIN pairs |-> pairs[i][1] >= pairs[i][2]]
    IN <<CountOf(wins, FALSE), CountOf(wins, TRUE)>>

\* fight, given the throws: returns <<len(wins that are False), len(wins that are True)>>
\* fight that counts only the pairs won by the attacker
fight_without_defender_wins(attackers, defenders, attack_throws, defend_throws) ==
    LET attack_dices == sorted_reverse(attack_throws)
        defend_dices == sorted_reverse(defend_throws)
        pairs == zip(attack_dices, defend_dices)
        wins == [i \in DOMAIN pairs |-> pairs[i][1] > pairs[i][2]]
    IN <<0, CountOf(wins, TRUE)>>

fight(attackers, defenders, attack_throws, defend_throws) ==
    LET attack_dices == sorted_reverse(attack_throws)
        defend_dices == sorted_reverse(defend_throws)
        pairs == zip(attack_dices, defend_dices)
        wins == [i \in DOMAIN pairs |-> pairs[i][1] > pairs[i][2]]
    IN <<CountOf(wins, FALSE), CountOf(wins, TRUE)>>

n_attack_dices(attackers) == Min(attackers, MaxAttackDice)

\* the defender throwing as many dice as the attacker may
n_defend_dices_as_attacker(defenders) == Min(defenders, MaxAttackDice)

n_defend_dices(defenders) == Min(defenders, MaxDefendDice)

(***************************************************************************)
(* SpecFight: one call of Board.fight(attackers, defenders) with every     *)
(* throw of the dice.                                                      *)
(***************************************************************************)
InitFight ==
    /\ n_players = MinPlayers
    /\ data = <<>>
    /\ missions = <<>>
    /\ cards = <<>>
    /\ turn = -1
    /\ players = <<>>
    /\ pc = <<>>
    /\ ratings = <<>>
    /\ pool = <<>>
    /\ last = NoCall

Fight ==
    /\ last.op = "none"
    /\ \E attackers \in 1 .. MaxFighters, defenders \in 1 .. MaxFighters :
         \E attack_throws \in Throws(n_attack_dices(attackers)),
            defend_throws \in Throws(n_defend_dices(defenders)) :
            last' = [NoCall EXCEPT !.op = "fight",
                                   !.args = <<attackers, defenders>>,
                                   !.dice = <<attack_throws, defend_throws>>,
                                   !.ret = fight(attackers, defenders,
                                                 attack_throws, defend_throws)]
    /\ UNCHANGED <<n_players, data, missions, cards, turn, players, pc, ratings, pool>>

NextFight == Fight

SpecFight == InitFight /\ [][NextFight]_vars

(***************************************************************************)
(* Topology.  definitions.territory_neighbors is static data outside the   *)
(* sources; the model moves armies on three territories in a row, 0 - 1 -  *)
(* 2, so that 0 and 2 share no border, and the territories 3 .. 41 lie on  *)
(* a ring of their own.  The graph is undirected, no territory borders     *)
(* itself, and every territory has a neighbour.                            *)
(***************************************************************************)
MoveTerritories == {0, 1, 2}

territory_neighbors ==
    [tid \in TerritoryIds |->
        CASE tid = 0 -> {1}
          [] tid = 1 -> {0, 2}
          [] tid = 2 -> {1}
          [] tid = 3 -> {NTerritories - 1, 4}
          [] tid = NTerritories - 1 -> {NTerritories - 2, 3}
          [] OTHER -> {tid - 1, tid + 1}]

(***************************************************************************)
(* Board.fortify and Board.attack (src/board.py 288-335).  Each assert is  *)
(* checked in the order of the code, before any mutation; the mutators     *)
(* that follow can raise themselves (set_armies), and what they changed    *)
(* before raising stays changed.                                           *)
(***************************************************************************)
\* fortify without the check that both territories share an owner
fortify_asserts_any_owner(d, from_territory, to_territory, n) ==
    IF ~(armies(d, from_territory) > n) THEN "AssertionError"
    ELSE IF ~(n >= 0) THEN "AssertionError"
    ELSE IF ~(to_territory \in territory_neighbors[from_territory]) THEN "AssertionError"
    ELSE "none"

fortify_asserts(d, from_territory, to_territory, n) ==
    IF ~(armies(d, from_territory) > n) THEN "AssertionError"
    ELSE IF ~(n >= 0) THEN "AssertionError"
    ELSE IF ~(owner(d, from_territory) = owner(d, to_territory)) THEN "AssertionError"
    ELSE IF ~(to_territory \in territory_neighbors[from_territory]) THEN "AssertionError"
    ELSE "none"

fortify(d, from_territory, to_territory, n) ==
    IF fortify_asserts(d, from_territory, to_territory, n) # "none"
    THEN [data |-> d, err |-> fortify_asserts(d, from_territory, to_territory, n)]
    ELSE LET r1 == add_armies(d, from_territory, -n)
         IN IF r1.err # "none" THEN r1
            ELSE add_armies(r1.data, to_territory, n)

\* attack without the check that the territories share a border
attack_asserts_any_border(d, from_territory, to_territory, n) ==
    IF ~(armies(d, from_territory) > n) THEN "AssertionError"
    ELSE IF ~(n > 0) THEN "AssertionError"
    ELSE IF ~(owner(d, from_territory) # owner(d, to_territory)) THEN "AssertionError"
    ELSE "none"

attack_asserts(d, from_territory, to_territory, n) ==
    IF ~(armies(d, from_territory) > n) THEN "AssertionError"
    ELSE IF ~(n > 0) THEN "AssertionError"
    ELSE IF ~(owner(d, from_territory) # owner(d, to_territory)) THEN "AssertionError"
    ELSE IF ~(to_territory \in territory_neighbors[from_territory]) THEN "AssertionError"
    ELSE "none"

\* the body of attack with the armies moving in counted as n - att_wins
attack_resolve_minus_att_wins(d, from_territory, to_territory, n, fought) ==
    LET def_wins == fought[1]
        att_wins == fought[2]
    IN IF armies(d, to_territory) = att_wins
       THEN LET r1 == add_armies(d, from_territory, -n)
                r2 == set_armies(r1.data, to_territory, n - att_wins)
            IN IF r1.err # "none" THEN [data |-> r1.data, err |-> r1.err, ret |-> <<>>]
               ELSE IF r2.err # "none" THEN [data |-> r2.data, err |-> r2.err, ret |-> <<>>]
               ELSE [data |-> set_owner(r2.data, to_territory, owner(r2.data, from_territory)),
                     err |-> "none", ret |-> <<TRUE>>]
       ELSE LET r1 == add_armies(d, from_territory, -def_wins)
                r2 == add_armies(r1.data, to_territory, -att_wins)
            IN IF r1.err # "none" THEN [data |-> r1.data, err |-> r1.err, ret |-> <<>>]
               ELSE IF r2.err # "none" THEN [data |-> r2.data, err |-> r2.err, ret |-> <<>>]
               ELSE [data |-> r2.data, err |-> "none", ret |-> <<FALSE>>]

\* the body of attack unpacking fight's result in the other order
\* (att_wins, def_wins = fight(...), as Game.perform_attack does with Game.fight)
attack_resolve_swapped(d, from_territory, to_territory, n, fought) ==
    LET att_wins == fought[1]
        def_wins == fought[2]
    IN IF armies(d, to_territory) = att_wins
       THEN LET r1 == add_armies(d, from_territory, -n)
                r2 == set_armies(r1.data, to_territory, n - def_wins)
            IN IF r1.err # "none" THEN [data |-> r1.data, err |-> r1.err, ret |-> <<>>]
               ELSE IF r2.err # "none" THEN [data |-> r2.data, err |-> r2.err, ret |-> <<>>]
               ELSE [data |-> set_owner(r2.data, to_territory, owner(r2.data, from_territory)),
                     err |-> "none", ret |-> <<TRUE>>]
       ELSE LET r1 == add_armies(d, from_territory, -def_wins)
                r2 == add_armies(r1.data, to_territory, -att_wins)
            IN IF r1.err # "none" THEN [data |-> r1.data, err |-> r1.err, ret |-> <<>>]
               ELSE IF r2.err # "none" THEN [data |-> r2.data, err |-> r2.err, ret |-> <<>>]
               ELSE [data |-> r2.data, err |-> "none", ret |-> <<FALSE>>]

\* the body of attack with a capture that leaves the attackers at home as well
attack_resolve_keeps_source(d, from_territory, to_territory, n, fought) ==
    LET def_wins == fought[1]
        att_wins == fought[2]
    IN IF armies(d, to_territory) = att_wins
       THEN LET r2 == set_armies(d, to_territory, n - def_wins)
            IN IF r2.err # "none" THEN [data |-> r2.data, err |-> r2.err, ret |-> <<>>]
               ELSE [data |-> set_owner(r2.data, to_territory, owner(r2.data, from_territory)),
                     err |-> "none", ret |-> <<TRUE>>]
       ELSE LET r1 == add_armies(d, from_territory, -def_wins)
                r2 == add_armies(r1.data, to_territory, -att_wins)
            IN IF r1.err # "none" THEN [data |-> r1.data, err |-> r1.err, ret |-> <<>>]
               ELSE IF r2.err # "none" THEN [data |-> r2.data, err |-> r2.err, ret |-> <<>>]
               ELSE [data |-> r2.data, err |-> "none", ret |-> <<FALSE>>]

\* the body of attack after its asserts; fought is what fight returned
\* attack that captures the target on any pair won by the attacker
attack_resolve_capture_on_any_win(d, from_territory, to_territory, n, fought) ==
    LET def_wins == fought[1]
        att_wins == fought[2]
    IN IF att_wins >= 1
       THEN LET r1 == add_armies(d, from_territory, -n)
                r2 == set_armies(r1.data, to_territory, n - def_wins)
            IN IF r1.err # "none" THEN [data |-> r1.data, err |-> r1.err, ret |-> <<>>]
               ELSE IF r2.err # "none" THEN [data |-> r2.data, err |-> r2.err, ret |-> <<>>]
               ELSE [data |-> set_owner(r2.data, to_territory, owner(r2.data, from_territory)),
                     err |-> "none", ret |-> <<TRUE>>]
       ELSE LET r1 == add_armies(d, from_territory, -def_wins)
                r2 == add_armies(r1.data, to_territory, -att_wins)
            IN IF r1.err # "none" THEN [data |-> r1.data, err |-> r1.err, ret |-> <<>>]
               ELSE IF r2.err # "none" THEN [data |-> r2.data, err |-> r2.err, ret |-> <<>>]
               ELSE [data |-> r2.data, err |-> "none", ret |-> <<FALSE>>]

attack_resolve(d, from_territory, to_territory, n, fought) ==
    LET def_wins == fought[1]
        att_wins == fought[2]
    IN IF armies(d, to_territory) = att_wins
       THEN LET r1 == add_armies(d, from_territory, -n)
                r2 == set_armies(r1.data, to_territory, n - def_wins)
            IN IF r1.err # "none" THEN [data |-> r1.data, err |-> r1.err, ret |-> <<>>]
               ELSE IF r2.err # "none" THEN [data |-> r2.data, err |-> r2.err, ret |-> <<>>]
               ELSE [data |-> set_owner(r2.data, to_territory, owner(r2.data, from_territory)),
                     err |-> "none", ret |-> <<TRUE>>]
       ELSE LET r1 == add_armies(d, from_territory, -def_wins)
                r2 == add_armies(r1.data, to_territory, -att_wins)
            IN IF r1.err # "none" THEN [data |-> r1.data, err |-> r1.err, ret |-> <<>>]
               ELSE IF r2.err # "none" THEN [data |-> r2.data, err |-> r2.err, ret |-> <<>>]
               ELSE [data |-> r2.data, err |-> "none", ret |-> <<FALSE>>]

\* every result fight can return for these numbers of attackers and defenders
fight_results ==
    [attackers \in 1 .. MaxArmies, defenders \in 1 .. MaxArmies |->
        {fight(attackers, defenders, attack_throws, defend_throws) :
            attack_throws \in Throws(n_attack_dices(attackers)),
            defend_throws \in Throws(n_defend_dices(defenders))}]

(***************************************************************************)
(* Spec: a created board for MinPlayers players, and any sequence of       *)
(* set_armies, add_armies, attack and fortify calls on MoveTerritories,    *)
(* accepted or rejected.  `last` holds the call whose outcome the caller   *)
(* is looking at; it is empty between calls.                               *)
(***************************************************************************)
Init ==
    /\ n_players = MinPlayers
    /\ data \in {create(MinPlayers, draws) : draws \in ShuffleDraws(MaxSwaps, 3)}
    /\ missions = <<>>
    /\ cards = <<>>
    /\ turn = -1
    /\ players = <<>>
    /\ pc = <<>>
    /\ ratings = <<>>
    /\ pool = <<>>
    /\ last = NoCall

SetArmies ==
    /\ last.op = "none"
    /\ \E territory_id \in MoveTerritories, n \in -1 .. MaxArmies :
         LET r == set_armies(data, territory_id, n)
         IN /\ data' = r.data
            /\ last' = [NoCall EXCEPT !.op = "set_armies", !.args = <<territory_id, n>>,
                                      !.err = r.err]
    /\ UNCHANGED <<n_players, missions, cards, turn, players, pc, ratings, pool>>

AddArmies ==
    /\ last.op = "none"
    /\ \E territory_id \in MoveTerritories, n \in {-2, -1, 1, 2} :
         /\ armies(data, territory_id) + n <= MaxArmies
         /\ LET r == add_armies(data, territory_id, n)
            IN /\ data' = r.data
               /\ last' = [NoCall EXCEPT !.op = "add_armies", !.args = <<territory_id, n>>,
                                         !.err = r.err]
    /\ UNCHANGED <<n_players, missions, cards, turn, players, pc, ratings, pool>>

Fortify ==
    /\ last.op = "none"
    /\ \E from_territory \in MoveTerritories, to_territory \in MoveTerritories,
          n \in -1 .. MaxArmies :
         /\ fortify_asserts(data, from_territory, to_territory, n) = "none"
               => armies(data, to_territory) + n <= MaxArmies
         /\ LET r == fortify(data, from_territory, to_territory, n)
            IN /\ data' = r.data
               /\ last' = [NoCall EXCEPT !.op = "fortify",
                                         !.args = <<from_territory, to_territory, n>>,
                                         !.err = r.err]
    /\ UNCHANGED <<n_players, missions, cards, turn, players, pc, ratings, pool>>

AttackRejected ==
    /\ last.op = "none"
    /\ \E from_territory \in MoveTerritories, to_territory \in MoveTerritories,
          n \in -1 .. MaxArmies :
         /\ attack_asserts(data, from_territory, to_territory, n) # "none"
         /\ data' = data
         /\ last' = [NoCall EXCEPT !.op = "attack",
                                   !.args = <<from_territory, to_territory, n>>,
                                   !.err = attack_asserts(data, from_territory, to_territory, n)]
    /\ UNCHANGED <<n_players, missions, cards, turn, players, pc, ratings, pool>>

AttackFought ==
    /\ last.op = "none"
    /\ \E from_territory \in MoveTerritories, to_territory \in MoveTerritories,
          n \in -1 .. MaxArmies :
         /\ attack_asserts(data, from_territory, to_territory, n) = "none"
         /\ \E fought \in fight_results[n, armies(data, to_territory)] :
              LET r == attack_resolve(data, from_territory, to_territory, n, fought)
              IN /\ data' = r.data
                 /\ last' = [NoCall EXCEPT !.op = "attack",
                                           !.args = <<from_territory, to_territory, n>>,
                                           !.fought = fought,
                                           !.err = r.err,
                                           !.ret = r.ret]
    /\ UNCHANGED <<n_players, missions, cards, turn, players, pc, ratings, pool>>

Attack == AttackRejected \/ AttackFought

\* The caller has seen the outcome of its call (the value returned, or the
\* exception it caught, as assertRaises does) and goes on to its next call.
Proceed ==
    /\ last.op # "none"
    /\ last' = NoCall
    /\ UNCHANGED <<n_players, data, missions, cards, turn, players, pc, ratings, pool>>

Next == SetArmies \/ AddArmies \/ Fortify \/ Attack \/ Proceed

Spec == Init /\ [][Next]_vars

(***************************************************************************)
(* Continents.  definitions.continent_territories is static data outside   *)
(* the sources: six continents that partition the 42 territories, here in  *)
(* consecutive blocks of 6, 12, 7, 9, 4 and 4 territories.                *)
(***************************************************************************)
ContinentIds == 0 .. 5

continent_territories ==
    [continent_id \in ContinentIds |->
        CASE continent_id = 0 -> 0 .. 5
          [] continent_id = 1 -> 6 .. 17
          [] continent_id = 2 -> 18 .. 24
          [] continent_id = 3 -> 25 .. 33
          [] continent_id = 4 -> 34 .. 37
          [] continent_id = 5 -> 38 .. 41]

(***************************************************************************)
(* Board: continent methods (src/board.py 172-215).  None is <<>> and a    *)
(* player id p is <<p>> where the code returns one or the other.           *)
(***************************************************************************)
continent(d, continent_id) == {tid \in DOMAIN d : tid \in continent_territories[continent_id]}

owns_continent(d, player_id, continent_id) ==
    \A tid \in continent(d, continent_id) : owner(d, tid) = player_id

n_continents(d, player_id) ==
    Cardinality({continent_id \in ContinentIds : owns_continent(d, player_id, continent_id)})

continent_owner(d, continent_id) ==
    LET pids == {owner(d, tid) : tid \in continent(d, continent_id)}
    IN IF Cardinality(pids) = 1 THEN <<CHOOSE pid \in pids : TRUE>> ELSE <<>>

(***************************************************************************)
(* Missions (src/src/missions.py).  A mission is a record of its class     *)
(* (kind), the player it is assigned to (<<>> while unassigned), and the   *)
(* target player or the continents of the classes that have them.          *)
(***************************************************************************)
Mission(kind, target_id, continents) ==
    [kind |-> kind, player_id |-> <<>>, target_id |-> target_id, continents |-> continents]

assign_to(m, player_id) == [m EXCEPT !.player_id = <<player_id>>]

BaseMission_evaluate(m, d) == n_territories(d, m.player_id[1]) >= 24

\* _criterium as the older src/missions.py has it: the comparison itself
TerritoryMission_criterium_as_bool(m, d) ==
    IF Cardinality({tid \in DOMAIN d : owner(d, tid) = m.player_id[1] /\ armies(d, tid) >= 2}) >= 18
    THEN 1 ELSE 0

TerritoryMission_criterium(m, d) ==
    Cardinality({tid \in DOMAIN d : owner(d, tid) = m.player_id[1] /\ armies(d, tid) >= 2})

TerritoryMission_evaluate(m, d) == TerritoryMission_criterium(m, d) >= 18

PlayerMission_evaluate(m, d) ==
    IF m.target_id = m.player_id
    THEN BaseMission_evaluate(m, d)
    ELSE n_territories(d, m.target_id[1]) = 0

\* the loop returns False at the first continent of the tuple not owned by the player
ContinentMission_evaluate(m, d) ==
    \A i \in DOMAIN m.continents : continent_owner(d, m.continents[i]) = m.player_id

ExtraContinentMission_evaluate(m, d) ==
    IF \E i \in DOMAIN m.continents : continent_owner(d, m.continents[i]) # m.player_id
    THEN FALSE
    ELSE n_continents(d, m.player_id[1]) > Len(m.continents)

\* evaluate: ValueError for an unassigned mission, else the class's _evaluate
evaluate(m, d) ==
    IF m.player_id = <<>> THEN [err |-> "ValueError", ret |-> FALSE]
    ELSE [err |-> "none",
          ret |-> CASE m.kind = "BaseMission" -> BaseMission_evaluate(m, d)
                    [] m.kind = "TerritoryMission" -> TerritoryMission_evaluate(m, d)
                    [] m.kind = "PlayerMission" -> PlayerMission_evaluate(m, d)
                    [] m.kind = "ContinentMission" -> ContinentMission_evaluate(m, d)
                    [] m.kind = "ExtraContinentMission" ->
                           ExtraContinentMission_evaluate(m, d)]

\* missions(n_players): the list of all available missions, here indexed from 0
available_missions(n) ==
    LET base_missions ==
            <<Mission("ContinentMission", <<>>, <<1, 5>>),
              Mission("ContinentMission", <<>>, <<0, 1>>),
              Mission("ContinentMission", <<>>, <<0, 3>>),
              Mission("ContinentMission", <<>>, <<3, 4>>),
              Mission("ExtraContinentMission", <<>>, <<2, 5>>),
              Mission("ExtraContinentMission", <<>>, <<2, 4>>),
              Mission("BaseMission", <<>>, <<>>),
              Mission("TerritoryMission", <<>>, <<>>)>>
        player_missions == [i \in 1 .. n |-> Mission("PlayerMission", <<i - 1>>, <<>>)]
    IN [i \in 0 .. (Len(base_missions) + n - 1) |-> (base_missions \o player_missions)[i + 1]]

(***************************************************************************)
(* Game: win detection (src/src/game.py 174-220).                          *)
(***************************************************************************)
is_alive(d, player_id) == n_territories(d, player_id) > 0

\* has_won as the older Game of src/game.py has it: the mission alone
has_won_mission_only(d, ms, player_id) == evaluate(ms[player_id], d).ret

has_won(d, ms, player_id) ==
    is_alive(d, player_id) /\
        (evaluate(ms[player_id], d).ret \/ n_territories(d, player_id) = NTerritories)

\* for player_id in self.player_ids: the first that has won, else None
RECURSIVE winner_from(_, _, _, _)
winner_from(d, ms, n, player_id) ==
    IF player_id >= n THEN <<>>
    ELSE IF has_won(d, ms, player_id) THEN <<player_id>>
    ELSE winner_from(d, ms, n, player_id + 1)

winner(d, ms, n) == winner_from(d, ms, n, 0)

has_ended(d, ms, n) == winner(d, ms, n) # <<>>

(***************************************************************************)
(* SpecWinner: a Game built by its constructor from a board and missions,  *)
(* asked who has won.  The boards: every continent held by one player      *)
(* (any player for any continent), the border variant of it in which the   *)
(* first territory of every continent belongs to the next player, and the  *)
(* same number of armies, 1..MaxGarrison, everywhere.  The missions: the   *)
(* first n_players of the available list after a rotation, which is one of *)
(* the orders random.shuffle can leave, each assigned to its player.       *)
(***************************************************************************)
GameBoard(n, holder, border, garrison) ==
    [tid \in TerritoryIds |->
        LET continent_id == CHOOSE c \in ContinentIds : tid \in continent_territories[c]
            first == \A other \in continent_territories[continent_id] : tid <= other
        IN <<tid,
             IF border /\ first THEN (holder[continent_id] + 1) % n ELSE holder[continent_id],
             garrison>>]

GameMissions(n, rotation) ==
    LET available == available_missions(n)
        size == Cardinality(DOMAIN available)
    IN [pid \in 0 .. (n - 1) |-> assign_to(available[(rotation + pid) % size], pid)]

InitWinner ==
    /\ n_players = MinPlayers
    /\ \E holder \in [ContinentIds -> 0 .. (MinPlayers - 1)], border \in BOOLEAN,
          garrison \in 1 .. MaxGarrison :
          data = GameBoard(MinPlayers, holder, border, garrison)
    /\ \E rotation \in 0 .. (Cardinality(DOMAIN available_missions(MinPlayers)) - 1) :
          missions = GameMissions(MinPlayers, rotation)
    /\ cards = <<>>
    /\ turn = -1
    /\ players = <<>>
    /\ pc = <<>>
    /\ ratings = <<>>
    /\ pool = <<>>
    /\ last = NoCall

Winner ==
    /\ last.op = "none"
    /\ last' = [NoCall EXCEPT !.op = "winner", !.ret = winner(data, missions, n_players)]
    /\ UNCHANGED <<n_players, data, missions, cards, turn, players, pc, ratings, pool>>

HasEnded ==
    /\ last.op = "none"
    /\ last' = [NoCall EXCEPT !.op = "has_ended",
                              !.ret = <<has_ended(data, missions, n_players)>>]
    /\ UNCHANGED <<n_players, data, missions, cards, turn, players, pc, ratings, pool>>

HasWon ==
    /\ last.op = "none"
    /\ \E player_id \in 0 .. (n_players - 1) :
          last' = [NoCall EXCEPT !.op = "has_won", !.args = <<player_id>>,
                                 !.ret = <<has_won(data, missions, player_id)>>]
    /\ UNCHANGED <<n_players, data, missions, cards, turn, players, pc, ratings, pool>>

NextWinner == Winner \/ HasEnded \/ HasWon

SpecWinner == InitWinner /\ [][NextWinner]_vars

(***************************************************************************)
(* Properties of the Board.                                                *)
(***************************************************************************)
RECURSIVE SumOver(_, _)
SumOver(d, tids) ==
    IF tids = {} THEN 0
    ELSE LET t == CHOOSE x \in tids : TRUE
         IN d[t][3] + SumOver(d, tids \ {t})

TotalArmies(d) == SumOver(d, DOMAIN d)

OwnedBy(d, p) == {tid \in DOMAIN d : d[tid][2] = p}

\* the call seen in the next state, and its arguments
CallIs(name) == last'.op = name
Arg(k) == last'.args[k]

\* C1: for n in 3..6, Board.create(n) yields exactly 42 records with ids 0..41,
\* each with one owner in 0..n-1 and exactly 1 army, and player p owns exactly
\* |{i in 0..41 : i mod n = p}| territories (player 0: 14, 11, 9, 7).
C1_CreatePartitions ==
    last.op = "create" =>
        /\ DOMAIN data = 0 .. 41
        /\ \A tid \in DOMAIN data :
              /\ data[tid][1] = tid
              /\ data[tid][2] \in 0 .. (n_players - 1)
              /\ data[tid][3] = 1
        /\ \A p \in 0 .. (n_players - 1) :
              Cardinality(OwnedBy(data, p)) = Cardinality({i \in 0 .. 41 : i % n_players = p})
        /\ Cardinality(OwnedBy(data, 0)) =
              (CASE n_players = 3 -> 14 [] n_players = 4 -> 11
                 [] n_players = 5 -> 9 [] n_players = 6 -> 7)

\* a board for 5 players (42 is no multiple of 5) whose shuffle moved the last territory
C1_Witness ==
    /\ last.op = "create"
    /\ n_players = 5
    /\ data[41][2] # 41 % 5

\* C2: every territory always holds at least 1 army, and a set_armies or
\* add_armies call whose result would be below 1 raises and changes nothing.
C2_ArmyFloor ==
    [][/\ \A tid \in DOMAIN data : data[tid][3] >= 1
       /\ \A tid \in DOMAIN data' : data'[tid][3] >= 1
       /\ (CallIs("set_armies") /\ Arg(2) < 1) =>
              (last'.err # "none" /\ data' = data)
       /\ (CallIs("add_armies") /\ data[Arg(1)][3] + Arg(2) < 1) =>
              (last'.err # "none" /\ data' = data)]_vars

\* an add_armies(t, -1) on a territory with one army was rejected, after a capture
C2_Witness ==
    /\ last.op = "add_armies"
    /\ last.err # "none"
    /\ \E tid \in MoveTerritories : data[tid][2] # tid % MinPlayers /\ data[tid][3] > 1

\* C3: for a >= 1 and d >= 1 and every throw, fight(a, d) returns losses that are
\* both >= 0, sum to 1 or 2, with attacker losses <= min(a, 3) and defender
\* losses <= min(d, 2).
C3_FightLosses ==
    last.op = "fight" =>
        LET a == last.args[1]
            d == last.args[2]
            attacker_losses == last.ret[1]
            defender_losses == last.ret[2]
        IN /\ attacker_losses >= 0
           /\ defender_losses >= 0
           /\ attacker_losses + defender_losses \in {1, 2}
           /\ attacker_losses <= Min(a, 3)
           /\ defender_losses <= Min(d, 2)

\* more fighters than dice on both sides, one loss each
C3_Witness ==
    /\ last.op = "fight"
    /\ last.args[1] > 3
    /\ last.args[2] > 2
    /\ last.ret = <<1, 1>>

\* the k-th highest of the throws xs, without sorting: the value v with fewer
\* than k throws above it and at least k throws at or above it
KthHighest(xs, k) ==
    CHOOSE v \in 1 .. 6 :
        /\ Cardinality({i \in DOMAIN xs : xs[i] > v}) < k
        /\ Cardinality({i \in DOMAIN xs : xs[i] >= v}) >= k

\* C4: fight throws min(attackers, 3) and min(defenders, 2) dice, pairs the k-th
\* highest attack die with the k-th highest defence die, counts a pair for the
\* attacker only when his die is strictly higher, and returns
\* (pairs won by the defender, pairs won by the attacker).
C4_FightPairs ==
    last.op = "fight" =>
        LET attack_throws == last.dice[1]
            defend_throws == last.dice[2]
            n_pairs == Min(Len(attack_throws), Len(defend_throws))
            attacker_pairs == {k \in 1 .. n_pairs :
                                 KthHighest(attack_throws, k) > KthHighest(defend_throws, k)}
        IN /\ Len(attack_throws) = Min(last.args[1], 3)
           /\ Len(defend_throws) = Min(last.args[2], 2)
           /\ last.ret[2] = Cardinality(attacker_pairs)
           /\ last.ret[1] = n_pairs - Cardinality(attacker_pairs)

\* throws that are not in order, with a tie on the highest dice that the defender won
C4_Witness ==
    /\ last.op = "fight"
    /\ last.dice[1] = <<2, 5, 3>>
    /\ last.dice[2] = <<1, 5>>
    /\ last.ret = <<1, 1>>

\* the attack seen in the next state passed its asserts and fought
Fought == CallIs("attack") /\ last'.fought # <<>>
Captures == Fought /\ last'.fought[2] = data[Arg(2)][3]

\* C5 as stated: on a capture the target gets owner(from) and n - defender_losses
\* armies, the source loses n armies, and True is returned.
C5_AsStated ==
    [][Captures =>
          /\ data'[Arg(2)][2] = data[Arg(1)][2]
          /\ data'[Arg(2)][3] = Arg(3) - last'.fought[2]
          /\ data'[Arg(1)][3] = data[Arg(1)][3] - Arg(3)
          /\ last'.ret = <<TRUE>>]_vars

\* C5, amended: on a capture the target gets owner(from) and n - attacker_losses
\* armies, the source loses n armies, and True is returned.
C5_Capture ==
    [][Captures =>
          /\ data'[Arg(2)][2] = data[Arg(1)][2]
          /\ data'[Arg(2)][3] = Arg(3) - last'.fought[1]
          /\ data'[Arg(1)][3] = data[Arg(1)][3] - Arg(3)
          /\ last'.err = "none"
          /\ last'.ret = <<TRUE>>]_vars

\* a capture with two armies of a territory that held two defenders
C5_Witness ==
    /\ last.op = "attack"
    /\ last.ret = <<TRUE>>
    /\ last.fought = <<0, 2>>
    /\ last.args[3] = 2

C7_NoCapture ==
    [][(Fought /\ ~Captures) =>
          /\ data'[Arg(1)][3] = data[Arg(1)][3] - last'.fought[1]
          /\ data'[Arg(2)][3] = data[Arg(2)][3] - last'.fought[2]
          /\ \A tid \in DOMAIN data : data'[tid][2] = data[tid][2]
          /\ \A tid \in DOMAIN data \ {Arg(1), Arg(2)} : data'[tid] = data[tid]
          /\ DOMAIN data' = DOMAIN data
          /\ last'.err = "none"
          /\ last'.ret = <<FALSE>>]_vars

\* two attackers against two defenders, one loss each, no capture
C7_Witness ==
    /\ last.op = "attack"
    /\ last.ret = <<FALSE>>
    /\ last.fought = <<1, 1>>

\* C8: a successful attack never increases the total number of armies, and the
\* target is afterwards owned by its old owner or by the owner of the source.
C8_AttackTotals ==
    [][(CallIs("attack") /\ last'.err = "none") =>
          /\ TotalArmies(data') <= TotalArmies(data)
          /\ data'[Arg(2)][2] \in {data[Arg(2)][2], data[Arg(1)][2]}]_vars

\* a capture by two armies of a territory with one defender
C8_Witness ==
    /\ last.op = "attack"
    /\ last.err = "none"
    /\ last.ret = <<TRUE>>
    /\ last.args[3] = 2
    /\ last.fought = <<0, 1>>

FortifyAllowed ==
    /\ 0 <= Arg(3)
    /\ Arg(3) < data[Arg(1)][3]
    /\ data[Arg(1)][2] = data[Arg(2)][2]
    /\ Arg(2) \in territory_neighbors[Arg(1)]

Won(p) ==
    /\ OwnedBy(data, p) # {}
    /\ \/ evaluate(missions[p], data).ret
       \/ OwnedBy(data, p) = 0 .. 41

CardSetNames == {"infantry", "cavalry", "artillery", "mix"}

card_sets ==
    [set_name \in CardSetNames |->
        CASE set_name = "infantry"  -> [card_set |-> <<3, 0, 0>>, armies |-> 4]
          [] set_name = "cavalry"   -> [card_set |-> <<0, 3, 0>>, armies |-> 6]
          [] set_name = "artillery" -> [card_set |-> <<0, 0, 3>>, armies |-> 8]
          [] set_name = "mix"       -> [card_set |-> <<1, 1, 1>>, armies |-> 10]]

CardTypes == 0 .. 2

NewCards(n_inf, n_cav, n_art) == <<n_inf, n_cav, n_art>>

total_cards(hand) == hand[1] + hand[2] + hand[3]

\* obligatory only from six cards on
obligatory_turn_in_from_six(hand) == total_cards(hand) > 5

obligatory_turn_in(hand) == total_cards(hand) > 4

\* a set needs more cards than its pattern asks for
is_complete_strict(hand, set_name) ==
    IF set_name \notin DOMAIN card_sets
    THEN [err |-> "KeyError", ret |-> FALSE]
    ELSE [err |-> "none",
          ret |-> \A i \in 1 .. 3 : hand[i] > card_sets[set_name].card_set[i]]

is_complete(hand, set_name) ==
    IF set_name \notin DOMAIN card_sets
    THEN [err |-> "KeyError", ret |-> FALSE]
    ELSE [err |-> "none",
          ret |-> \A i \in 1 .. 3 : hand[i] >= card_sets[set_name].card_set[i]]

\* complete_sets that knows the sets of one kind only
complete_sets_of_one_kind(hand) ==
    {<<set_name, card_sets[set_name].armies>> :
        set_name \in {s \in DOMAIN card_sets \ {"mix"} : is_complete(hand, s).ret}}

complete_sets(hand) ==
    {<<set_name, card_sets[set_name].armies>> :
        set_name \in {s \in DOMAIN card_sets : is_complete(hand, s).ret}}

receive(hand, card_type) == [hand EXCEPT ![card_type + 1] = @ + 1]

\* turn_in that always takes one card of each type
turn_in_takes_mix(hand, set_name) ==
    IF set_name \notin DOMAIN card_sets
    THEN [cards |-> hand, err |-> "KeyError", ret |-> <<>>]
    ELSE IF ~is_complete(hand, set_name).ret
    THEN [cards |-> hand, err |-> "ValueError", ret |-> <<>>]
    ELSE [cards |-> [i \in 1 .. 3 |-> hand[i] - 1],
          err |-> "none", ret |-> <<card_sets[set_name].armies>>]

\* turn_in without the completeness check
turn_in_unchecked(hand, set_name) ==
    IF set_name \notin DOMAIN card_sets
    THEN [cards |-> hand, err |-> "KeyError", ret |-> <<>>]
    ELSE [cards |-> [i \in 1 .. 3 |-> hand[i] - card_sets[set_name].card_set[i]],
          err |-> "none", ret |-> <<card_sets[set_name].armies>>]

\* the card_sets lookup comes first (KeyError), then the completeness check
\* (ValueError), and only then are the counters decremented
turn_in(hand, set_name) ==
    IF set_name \notin DOMAIN card_sets
    THEN [cards |-> hand, err |-> "KeyError", ret |-> <<>>]
    ELSE IF ~is_complete(hand, set_name).ret
    THEN [cards |-> hand, err |-> "ValueError", ret |-> <<>>]
    ELSE [cards |-> [i \in 1 .. 3 |-> hand[i] - card_sets[set_name].card_set[i]],
          err |-> "none", ret |-> <<card_sets[set_name].armies>>]

(***************************************************************************)
(* SpecCards: one hand, constructed with any counters in 0..MaxCards, and  *)
(* any sequence of receive, turn_in, obligatory_turn_in and complete_sets  *)
(* on it.  The hand is cards[0].                                           *)
(***************************************************************************)
SetNameArgs == CardSetNames \cup {"wrong_set"}

InitCards ==
    /\ n_players = MinPlayers
    /\ data = <<>>
    /\ missions = <<>>
    /\ \E n_inf \in 0 .. MaxCards, n_cav \in 0 .. MaxCards, n_art \in 0 .. MaxCards :
          cards = [p \in {0} |-> NewCards(n_inf, n_cav, n_art)]
    /\ turn = -1
    /\ players = <<>>
    /\ pc = <<>>
    /\ ratings = <<>>
    /\ pool = <<>>
    /\ last = NoCall

Receive ==
    /\ last.op = "none"
    /\ \E card_type \in CardTypes :
          /\ cards[0][card_type + 1] < MaxCards
          /\ cards' = [cards EXCEPT ![0] = receive(cards[0], card_type)]
          /\ last' = [NoCall EXCEPT !.op = "receive", !.dice = <<card_type>>]
    /\ UNCHANGED <<n_players, data, missions, turn, players, pc, ratings, pool>>

TurnIn ==
    /\ last.op = "none"
    /\ \E set_name \in SetNameArgs :
          LET r == turn_in(cards[0], set_name)
          IN /\ cards' = [cards EXCEPT ![0] = r.cards]
             /\ last' = [NoCall EXCEPT !.op = "turn_in", !.args = <<set_name>>,
                                       !.err = r.err, !.ret = r.ret]
    /\ UNCHANGED <<n_players, data, missions, turn, players, pc, ratings, pool>>

ObligatoryTurnIn ==
    /\ last.op = "none"
    /\ last' = [NoCall EXCEPT !.op = "obligatory_turn_in",
                              !.ret = <<obligatory_turn_in(cards[0])>>]
    /\ UNCHANGED <<n_players, data, missions, cards, turn, players, pc, ratings, pool>>

CompleteSets ==
    /\ last.op = "none"
    /\ last' = [NoCall EXCEPT !.op = "complete_sets",
                              !.ret = <<complete_sets(cards[0])>>]
    /\ UNCHANGED <<n_players, data, missions, cards, turn, players, pc, ratings, pool>>

NextCards == Receive \/ TurnIn \/ ObligatoryTurnIn \/ CompleteSets \/ Proceed

SpecCards == InitCards /\ [][NextCards]_vars

(***************************************************************************)
(* Properties of Cards.                                                    *)
(***************************************************************************)
HandTotal(hand) == hand[1] + hand[2] + hand[3]

CompleteNames(hand) == {s[1] : s \in complete_sets(hand)}

SingleKindNames == {"infantry", "cavalry", "artillery"}

\* the patterns and bonuses as the documentation states them
StatedPattern ==
    [set_name \in CardSetNames |->
        IF set_name = "infantry" THEN <<3, 0, 0>>
        ELSE IF set_name = "cavalry" THEN <<0, 3, 0>>
        ELSE IF set_name = "artillery" THEN <<0, 0, 3>>
        ELSE <<1, 1, 1>>]

StatedBonus ==
    [set_name \in CardSetNames |->
        IF set_name = "infantry" THEN 4
        ELSE IF set_name = "cavalry" THEN 6
        ELSE IF set_name = "artillery" THEN 8
        ELSE 10]

Covers(hand, pattern) == \A i \in 1 .. 3 : hand[i] >= pattern[i]

\* C16 as stated: a hand with (3,3,3) has all four sets complete; after
\* turning in "mix" once from that hand, exactly 2 of the 3 single-kind sets
\* remain complete and "mix" itself is no longer complete.
C16_AsStated ==
    [][(CallIs("turn_in") /\ Arg(1) = "mix" /\ cards[0] = <<3, 3, 3>>)
       => (/\ CompleteNames(cards[0]) = CardSetNames
           /\ Cardinality(CompleteNames(cards'[0]) \cap SingleKindNames) = 2
           /\ "mix" \notin CompleteNames(cards'[0]))]_vars

\* C16 (amended): a hand with (3,3,3) has all four sets complete; after
\* turning in one single-kind set from that hand, exactly 2 of the 3
\* single-kind sets remain complete and "mix" is no longer complete; after
\* turning in "mix" instead, the hand is (2,2,2), no single-kind set is
\* complete and "mix" is still complete.
C16_TurnInFromFull ==
    [][(CallIs("turn_in") /\ Arg(1) \in CardSetNames /\ cards[0] = <<3, 3, 3>>)
       => (/\ CompleteNames(cards[0]) = CardSetNames
           /\ last'.err = "none"
           /\ Arg(1) \in SingleKindNames
                => /\ CompleteNames(cards'[0]) = SingleKindNames \ {Arg(1)}
                   /\ Cardinality(CompleteNames(cards'[0])) = 2
           /\ Arg(1) = "mix"
                => /\ cards'[0] = <<2, 2, 2>>
                   /\ CompleteNames(cards'[0]) = {"mix"})]_vars

C16_Witness ==
    /\ last.op = "turn_in"
    /\ last.args = <<"mix">>
    /\ last.err = "none"
    /\ cards[0] = <<2, 2, 2>>

\* C17: turn_in(name) of a complete set subtracts exactly that set's pattern
\* from the three counters, so the hand total drops by 3, and returns the
\* set's fixed bonus (4, 6, 8, 10); a set is reported complete iff every
\* counter is at least the pattern's entry.
C17_TurnInComplete ==
    [][(CallIs("turn_in") /\ Arg(1) \in CardSetNames)
       => LET pattern == StatedPattern[Arg(1)]
              bonus == StatedBonus[Arg(1)]
          IN /\ (<<Arg(1), bonus>> \in complete_sets(cards[0]))
                   <=> Covers(cards[0], pattern)
             /\ (Arg(1) \in CompleteNames(cards[0])) <=> Covers(cards[0], pattern)
             /\ Covers(cards[0], pattern)
                  => /\ last'.err = "none"
                     /\ last'.ret = <<bonus>>
                     /\ \A i \in 1 .. 3 : cards'[0][i] = cards[0][i] - pattern[i]
                     /\ HandTotal(cards'[0]) = HandTotal(cards[0]) - 3]_vars

C17_Witness ==
    /\ last.op = "turn_in"
    /\ last.args = <<"artillery">>
    /\ last.ret = <<8>>
    /\ cards[0] = <<1, 2, 0>>

\* C18: turn_in(name) of a set that is not complete raises ValueError and
\* leaves the hand unchanged; hence, from non-negative counters, every
\* sequence of receive and turn_in calls keeps all three counters non-negative.
C18_TurnInIncomplete ==
    /\ [][(/\ CallIs("turn_in")
           /\ Arg(1) \in CardSetNames
           /\ ~Covers(cards[0], StatedPattern[Arg(1)]))
          => (last'.err = "ValueError" /\ last'.ret = <<>> /\ cards' = cards)]_vars
    /\ [](\A i \in 1 .. 3 : cards[0][i] >= 0)

C18_Witness ==
    /\ last.op = "turn_in"
    /\ last.args = <<"mix">>
    /\ last.err = "ValueError"
    /\ cards[0] = <<2, 2, 0>>

\* C19: obligatory_turn_in is true iff the hand holds 5 or more cards.
C19_Obligatory ==
    [][CallIs("obligatory_turn_in")
       => last'.ret = <<HandTotal(cards[0]) >= 5>>]_vars

C19_Witness ==
    /\ last.op = "obligatory_turn_in"
    /\ last.ret = <<TRUE>>
    /\ HandTotal(cards[0]) = 5

(***************************************************************************)
(* Board.reinforcements (src/board.py 247-260), with the continent bonuses *)
(* of src/risk.py 144; the continent ids are those of the continent sizes  *)
(* 6, 12, 7, 9, 4, 4 of continent_territories.                             *)
(***************************************************************************)
continent_bonuses ==
    [continent_id \in ContinentIds |->
        CASE continent_id = 0 -> 3
          [] continent_id = 1 -> 7
          [] continent_id = 2 -> 5
          [] continent_id = 3 -> 5
          [] continent_id = 4 -> 2
          [] continent_id = 5 -> 2]

Max(a, b) == IF a >= b THEN a ELSE b

RECURSIVE bonus_reinforcements(_, _, _)
bonus_reinforcements(d, player_id, continent_ids) ==
    IF continent_ids = {} THEN 0
    ELSE LET continent_id == CHOOSE c \in continent_ids : TRUE
         IN (IF continent_owner(d, continent_id) = <<player_id>>
             THEN continent_bonuses[continent_id] ELSE 0)
            + bonus_reinforcements(d, player_id, continent_ids \ {continent_id})

\* reinforcements without the minimum of 3
reinforcements_no_minimum(d, player_id) ==
    (n_territories(d, player_id) \div 3)
    + bonus_reinforcements(d, player_id, DOMAIN continent_bonuses)

reinforcements(d, player_id) ==
    Max(3, n_territories(d, player_id) \div 3)
    + bonus_reinforcements(d, player_id, DOMAIN continent_bonuses)

(***************************************************************************)
(* SpecReinforcements: a board on which every continent is held by one     *)
(* player (any player for any continent), on which territories of          *)
(* FrontTerritories change owner, and the reinforcements of every player.  *)
(***************************************************************************)
FrontTerritories == {0, 6}

InitReinforcements ==
    /\ n_players = MinPlayers
    /\ \E holder \in [ContinentIds -> 0 .. (MinPlayers - 1)] :
          data = GameBoard(MinPlayers, holder, FALSE, 1)
    /\ missions = <<>>
    /\ cards = <<>>
    /\ turn = -1
    /\ players = <<>>
    /\ pc = <<>>
    /\ ratings = <<>>
    /\ pool = <<>>
    /\ last = NoCall

SetOwner ==
    /\ last.op = "none"
    /\ \E territory_id \in FrontTerritories, player_id \in 0 .. (n_players - 1) :
          /\ owner(data, territory_id) # player_id
          /\ data' = set_owner(data, territory_id, player_id)
          /\ last' = [NoCall EXCEPT !.op = "set_owner",
                                    !.args = <<territory_id, player_id>>]
    /\ UNCHANGED <<n_players, missions, cards, turn, players, pc, ratings, pool>>

Reinforcements ==
    /\ last.op = "none"
    /\ \E player_id \in 0 .. (n_players - 1) :
          last' = [NoCall EXCEPT !.op = "reinforcements", !.args = <<player_id>>,
                                 !.ret = <<reinforcements(data, player_id)>>]
    /\ UNCHANGED <<n_players, data, missions, cards, turn, players, pc, ratings, pool>>

NextReinforcements == SetOwner \/ Reinforcements \/ Proceed

SpecReinforcements == InitReinforcements /\ [][NextReinforcements]_vars

(***************************************************************************)
(* Properties of Board.reinforcements.                                     *)
(***************************************************************************)
FullyOwned(d, p) ==
    {c \in ContinentIds : \A tid \in continent_territories[c] : d[tid][2] = p}

RECURSIVE SumBonus(_)
SumBonus(cs) ==
    IF cs = {} THEN 0
    ELSE LET c == CHOOSE x \in cs : TRUE
         IN continent_bonuses[c] + SumBonus(cs \ {c})

\* C20: reinforcements(p) = max(3, floor(n_territories(p) / 3)) plus the sum
\* of the bonuses of exactly the continents in which p owns every territory;
\* a player with fewer than 12 territories and no continent gets 3.
C20_Reinforcements ==
    [][CallIs("reinforcements")
       => LET p == Arg(1)
              count == Cardinality(OwnedBy(data, p))
              third == CHOOSE q \in 0 .. NTerritories : 3 * q <= count /\ count < 3 * (q + 1)
              base == IF third > 3 THEN third ELSE 3
          IN /\ last'.ret = <<base + SumBonus(FullyOwned(data, p))>>
             /\ (count < 12 /\ FullyOwned(data, p) = {}) => last'.ret = <<3>>]_vars

C20_Witness ==
    /\ last.op = "reinforcements"
    /\ LET p == last.args[1]
       IN /\ Cardinality(OwnedBy(data, p)) >= 15
          /\ FullyOwned(data, p) # {}
          /\ \E c \in ContinentIds \ FullyOwned(data, p) :
                \E tid \in continent_territories[c] : data[tid][2] = p
          /\ last.ret[1] > 5

(***************************************************************************)
(* Game: creation and initial placement (src/src/game.py 45-114, 150-172). *)
(* An agent of `players` is the rank, among the territories its player     *)
(* owns, of the territory its reinforce() answers with.                    *)
(***************************************************************************)
starting_armies ==
    [n \in MinPlayers .. MaxPlayers |->
        CASE n = 3 -> 35
          [] n = 4 -> 30
          [] n = 5 -> 25
          [] n = 6 -> 20]

assign_cards(n) == [p \in 0 .. (n - 1) |-> NewCards(0, 0, 0)]

current_player_id(t, n) == IF t >= 0 THEN <<t % n>> ELSE <<>>

\* next_turn that looks one player further and no more
next_turn_skips_one(d, n, t) == IF is_alive(d, (t + 1) % n) THEN t + 1 ELSE t + 2

\* next_turn that skips nobody
next_turn_no_skip(d, n, t) == t + 1

RECURSIVE next_turn(_, _, _)
next_turn(d, n, t) ==
    IF is_alive(d, (t + 1) % n) THEN t + 1 ELSE next_turn(d, n, t + 1)

player_reinforce(d, player_id, rank) ==
    CHOOSE territory_id \in territories_of(d, player_id) :
        Cardinality({u \in territories_of(d, player_id) : u < territory_id}) = rank - 1

\* a player at its allotment places one more army
has_army_left_inclusive(d, player_id, n) == n_armies(d, player_id) <= starting_armies[n]

has_army_left(d, player_id, n) == n_armies(d, player_id) < starting_armies[n]

\* the loop body for the players player_id .. n-1; `placed` lists the
\* (player, territory) pairs in the order the armies were added
RECURSIVE initialize_single_army(_, _, _, _)
initialize_single_army(d, agents, n, player_id) ==
    IF player_id = n THEN [data |-> d, changed |-> FALSE, placed |-> <<>>]
    ELSE IF has_army_left(d, player_id, n)
    THEN LET territory_id == player_reinforce(d, player_id, agents[player_id])
             rest == initialize_single_army(add_armies(d, territory_id, 1).data,
                                            agents, n, player_id + 1)
         IN [data |-> rest.data, changed |-> TRUE,
             placed |-> <<<<player_id, territory_id>>>> \o rest.placed]
    ELSE initialize_single_army(d, agents, n, player_id + 1)

(***************************************************************************)
(* SpecInitialize: Game.create for 3..6 players whose agents place on      *)
(* their own territories (all on the same rank, or on ranks that differ    *)
(* from player to player), then Game.initialize_armies: one action for     *)
(* every pass of its loop that places armies, and one for the pass that    *)
(* places none and ends with next_turn.                                    *)
(***************************************************************************)
AgentTeams(n) ==
    {[p \in 0 .. (n - 1) |-> rank] : rank \in 1 .. MaxTargets}
        \cup {[p \in 0 .. (n - 1) |-> 1 + (p % MaxTargets)]}

InitInitialize ==
    /\ n_players \in MinPlayers .. MaxPlayers
    /\ data \in {create(n_players, draws) : draws \in ShuffleDraws(1, 1)}
    /\ missions = GameMissions(n_players, 0)
    /\ cards = assign_cards(n_players)
    /\ turn = -1
    /\ players \in AgentTeams(n_players)
    /\ pc = [method |-> "initialize_armies"]
    /\ ratings = <<>>
    /\ pool = <<>>
    /\ last = NoCall

InitializeSingleArmy ==
    /\ pc.method = "initialize_armies"
    /\ LET r == initialize_single_army(data, players, n_players, 0)
       IN /\ r.changed
          /\ data' = r.data
          /\ last' = [NoCall EXCEPT !.op = "initialize_single_army",
                                    !.trace = r.placed, !.ret = <<TRUE>>]
    /\ UNCHANGED <<n_players, missions, cards, turn, players, pc, ratings, pool>>

InitializeArmiesEnd ==
    /\ pc.method = "initialize_armies"
    /\ LET r == initialize_single_army(data, players, n_players, 0)
       IN /\ ~r.changed
          /\ turn' = next_turn(data, n_players, turn)
          /\ pc' = [method |-> "play_turn"]
          /\ last' = [NoCall EXCEPT !.op = "initialize_armies"]
    /\ UNCHANGED <<n_players, data, missions, cards, players, ratings, pool>>

NextInitialize == InitializeSingleArmy \/ InitializeArmiesEnd

SpecInitialize == InitInitialize /\ [][NextInitialize]_vars

(***************************************************************************)
(* Properties of the initial placement.                                    *)
(***************************************************************************)
StatedAllotment(n) ==
    IF n = 3 THEN 35 ELSE IF n = 4 THEN 30 ELSE IF n = 5 THEN 25 ELSE 20

ArmiesOf(d, p) == SumOver(d, OwnedBy(d, p))

\* C11: after initialize_armies on a freshly created game whose agents place
\* on their own territories, every player's army total equals the starting
\* allotment for the player count (35, 30, 25, 20 for 3..6 players), every
\* pass added the armies one at a time in player order, and the game has
\* left the pre-game state: turn = 0 and the current player is player 0.
C11_InitialPlacement ==
    /\ [](pc.method = "play_turn"
            => /\ \A p \in 0 .. (n_players - 1) :
                     ArmiesOf(data, p) = StatedAllotment(n_players)
               /\ turn = 0
               /\ current_player_id(turn, n_players) = <<0>>)
    /\ [][CallIs("initialize_single_army")
            => LET placed == last'.trace
               IN /\ Len(placed) >= 1
                  /\ \A i \in 1 .. (Len(placed) - 1) : placed[i][1] < placed[i + 1][1]
                  /\ \A i \in 1 .. Len(placed) :
                        /\ data[placed[i][2]][2] = placed[i][1]
                        /\ ArmiesOf(data, placed[i][1]) < StatedAllotment(n_players)
                        /\ ArmiesOf(data', placed[i][1]) = ArmiesOf(data, placed[i][1]) + 1
                  /\ TotalArmies(data') = TotalArmies(data) + Len(placed)]_vars

C11_Witness ==
    /\ pc.method = "play_turn"
    /\ n_players = 4
    /\ turn = 0
    /\ \A p \in 0 .. 3 : ArmiesOf(data, p) = 30

(***************************************************************************)
(* Game: the phases of a turn (src/src/game.py 226-296).  The answers of   *)
(* the current player's agent are inputs of the actions.  An exception     *)
(* leaves play_turn, and the game is not played on: pc.method = "aborted". *)
(***************************************************************************)
\* for _ in range(k): add_armies(territory_id, 1).  No call of the loop
\* can fail (the armies only grow), so the k calls add up to one of k.
place(d, territory_id, k) ==
    IF k <= 0 THEN d ELSE add_armies(d, territory_id, k).data

Placed(territory_id, k) == [i \in 1 .. k |-> [ev |-> "add_armies", arg |-> territory_id]]

\* Game.reinforce for an agent that answers every reinforce() with
\* territory_id and turn_in_cards() with card_set (<<>> is None); `trace`
\* lists the calls made on the board and the hand, in order
Game_reinforce(d, hands, player_id, territory_id, card_set) ==
    LET n_reinforcements == reinforcements(d, player_id)
        d1 == place(d, territory_id, n_reinforcements)
        t1 == Placed(territory_id, n_reinforcements)
    IN IF card_set = <<>>
       THEN [data |-> d1, cards |-> hands, err |-> "none", trace |-> t1]
       ELSE LET r == turn_in(hands[player_id], card_set[1])
            IN IF r.err # "none"
               THEN [data |-> d1, cards |-> hands, err |-> r.err, trace |-> t1]
               ELSE [data |-> place(d1, territory_id, r.ret[1]),
                     cards |-> [hands EXCEPT ![player_id] = r.cards],
                     err |-> "none",
                     trace |-> t1 \o <<[ev |-> "turn_in", arg |-> card_set[1]]>>
                                  \o Placed(territory_id, r.ret[1])]

\* no check of who owns the territory a move starts from
check_owner_of_from_skipped(d, t, n, from_territory) == "none"

\* the check of Game.attack and Game.fortify on the move the agent returned
check_owner_of_from(d, t, n, from_territory) ==
    IF current_player_id(t, n) = <<owner(d, from_territory)>> THEN "none" ELSE "Exception"

fight_outcomes(attackers, defenders) ==
    fight_results[n_attack_dices(attackers), n_defend_dices(defenders)]

\* a card at the end of every attack phase
Game_attack_end_always(hands, player_id, did_win, card_type) ==
    [hands EXCEPT ![player_id] = receive(hands[player_id], card_type)]

\* the end of Game.attack, after the agent answered None
Game_attack_end(hands, player_id, did_win, card_type) ==
    IF did_win
    THEN [hands EXCEPT ![player_id] = receive(hands[player_id], card_type)]
    ELSE hands

(***************************************************************************)
(* SpecTurn: a Game for MinPlayers players on a created board, with 1 ..   *)
(* MaxGarrison armies on the territories 0 - 1 - 2 (one per player), every *)
(* player holding the same hand, at the start of the turn of any player:   *)
(* play_turn, phase by phase.  The attack phase is one action per answer   *)
(* of the agent.  pc.captures counts the attacks of the phase for which    *)
(* Board.attack returned True, pc.asked the calls of the agent's fortify.  *)
(***************************************************************************)
InitialHands == {<<0, 0, 0>>, <<3, 0, 1>>, <<2, 2, 1>>}

MoveAnswers == MoveTerritories \X MoveTerritories \X (0 .. MaxArmies)

InitTurn ==
    /\ n_players = MinPlayers
    /\ \E garrison \in 1 .. MaxGarrison :
          data = [tid \in TerritoryIds |->
                     IF tid \in MoveTerritories
                     THEN <<tid, owner(create(MinPlayers, NoExchange), tid), garrison>>
                     ELSE create(MinPlayers, NoExchange)[tid]]
    /\ missions = GameMissions(MinPlayers, 0)
    /\ \E hand \in InitialHands : cards = [p \in 0 .. (MinPlayers - 1) |-> hand]
    /\ turn \in 0 .. (MinPlayers - 1)
    /\ players = <<>>
    /\ pc = [method |-> "reinforce", did_win |-> FALSE, captures |-> 0, asked |-> 0]
    /\ ratings = <<>>
    /\ pool = <<>>
    /\ last = NoCall

GameReinforce ==
    /\ pc.method = "reinforce"
    /\ \E territory_id \in MoveTerritories,
          card_set \in {<<>>} \cup {<<set_name>> : set_name \in SetNameArgs} :
          LET player_id == current_player_id(turn, n_players)[1]
              r == Game_reinforce(data, cards, player_id, territory_id, card_set)
          IN /\ data' = r.data
             /\ cards' = r.cards
             /\ pc' = [pc EXCEPT !.method = IF r.err = "none" THEN "attack" ELSE "aborted"]
             /\ last' = [NoCall EXCEPT !.op = "reinforce",
                                       !.args = <<player_id, territory_id, card_set>>,
                                       !.trace = r.trace, !.err = r.err]
    /\ UNCHANGED <<n_players, missions, turn, players, ratings, pool>>

GameAttackRejected ==
    /\ pc.method = "attack"
    /\ \E move \in MoveAnswers :
          LET err == IF check_owner_of_from(data, turn, n_players, move[1]) # "none"
                     THEN check_owner_of_from(data, turn, n_players, move[1])
                     ELSE attack_asserts(data, move[1], move[2], move[3])
          IN /\ err # "none"
             /\ pc' = [pc EXCEPT !.method = "aborted"]
             /\ last' = [NoCall EXCEPT !.op = "attack_move", !.args = move, !.err = err]
    /\ UNCHANGED <<n_players, data, missions, cards, turn, players, ratings, pool>>

GameAttackFought ==
    /\ pc.method = "attack"
    /\ \E move \in MoveAnswers :
          /\ check_owner_of_from(data, turn, n_players, move[1]) = "none"
          /\ attack_asserts(data, move[1], move[2], move[3]) = "none"
          /\ \E fought \in fight_outcomes(move[3], armies(data, move[2])) :
                LET r == attack_resolve(data, move[1], move[2], move[3], fought)
                IN /\ data' = r.data
                   /\ pc' = IF r.err # "none" THEN [pc EXCEPT !.method = "aborted"]
                            ELSE IF r.ret = <<TRUE>>
                            THEN [pc EXCEPT !.did_win = TRUE, !.captures = @ + 1]
                            ELSE pc
                   /\ last' = [NoCall EXCEPT !.op = "attack_move", !.args = move,
                                             !.fought = fought, !.err = r.err,
                                             !.ret = r.ret]
    /\ UNCHANGED <<n_players, missions, cards, turn, players, ratings, pool>>

GameAttackEnd ==
    /\ pc.method = "attack"
    /\ \E card_type \in CardTypes :
          LET player_id == current_player_id(turn, n_players)[1]
          IN /\ cards' = Game_attack_end(cards, player_id, pc.did_win, card_type)
             /\ last' = [NoCall EXCEPT !.op = "attack", !.args = <<player_id>>]
    /\ pc' = [pc EXCEPT !.method = "fortify"]
    /\ UNCHANGED <<n_players, data, missions, turn, players, ratings, pool>>

GameAttack == GameAttackRejected \/ GameAttackFought \/ GameAttackEnd

GameFortifyNone ==
    /\ pc.method = "fortify"
    /\ pc' = [pc EXCEPT !.method = "next_turn", !.asked = @ + 1]
    /\ last' = [NoCall EXCEPT !.op = "fortify"]
    /\ UNCHANGED <<n_players, data, missions, cards, turn, players, ratings, pool>>

GameFortifyMove ==
    /\ pc.method = "fortify"
    /\ \E fortification \in MoveAnswers :
          LET checked == check_owner_of_from(data, turn, n_players, fortification[1])
              r == IF checked # "none" THEN [data |-> data, err |-> checked]
                   ELSE fortify(data, fortification[1], fortification[2], fortification[3])
          IN /\ data' = r.data
             /\ pc' = [pc EXCEPT !.method = IF r.err = "none" THEN "next_turn" ELSE "aborted",
                                 !.asked = @ + 1]
             /\ last' = [NoCall EXCEPT !.op = "fortify", !.args = fortification,
                                       !.err = r.err]
    /\ UNCHANGED <<n_players, missions, cards, turn, players, ratings, pool>>

GameFortify == GameFortifyNone \/ GameFortifyMove

GameNextTurn ==
    /\ pc.method = "next_turn"
    /\ turn' = next_turn(data, n_players, turn)
    /\ pc' = [pc EXCEPT !.method = "played"]
    /\ last' = [NoCall EXCEPT !.op = "next_turn"]
    /\ UNCHANGED <<n_players, data, missions, cards, players, ratings, pool>>

NextTurn == GameReinforce \/ GameAttack \/ GameFortify \/ GameNextTurn

SpecTurn == InitTurn /\ [][NextTurn]_vars

(***************************************************************************)
(* Properties of the phases of a turn.                                     *)
(***************************************************************************)
CurrentPlayer == turn % n_players

\* C12: in the reinforce phase, a player whose hand holds 5 or more cards
\* redeems a card set before any further reinforcement armies are placed on
\* the board: the phase turns a set in, and adds no army before that.
C12_RedeemFirst ==
    [][(CallIs("reinforce") /\ HandTotal(cards[Arg(1)]) >= 5)
       => \E i \in DOMAIN last'.trace :
             /\ last'.trace[i].ev = "turn_in"
             /\ \A j \in 1 .. (i - 1) : last'.trace[j].ev # "add_armies"]_vars

\* C13: when the agent's placement decision in the reinforce phase names a
\* territory the acting player does not own, the engine raises an
\* invalid-move error and adds no army.
C13_PlacementChecked ==
    [][(CallIs("reinforce") /\ data[Arg(2)][2] # Arg(1))
       => (last'.err = "Exception" /\ data' = data)]_vars

\* C14: in Game.attack and Game.fortify, a move whose from-territory is not
\* owned by the current player when the move is returned raises an error
\* before Board.attack / Board.fortify is called, so the board is unchanged
\* by the rejected move; Game.fortify asks the agent at most once per turn.
C14_MoveOwnership ==
    /\ [][(/\ (CallIs("attack_move") \/ CallIs("fortify"))
           /\ last'.args # <<>>
           /\ data[Arg(1)][2] # CurrentPlayer)
          => (/\ last'.err = "Exception"
              /\ data' = data
              /\ pc'.method = "aborted")]_vars
    /\ [][CallIs("fortify") => (pc.asked = 0 /\ pc'.asked = 1)]_vars
    /\ [](pc.asked <= 1)

C14_Witness ==
    /\ last.op = "attack_move"
    /\ last.err = "Exception"
    /\ pc.captures >= 1
    /\ attack_asserts(data, last.args[1], last.args[2], last.args[3]) = "none"

\* C15: at the end of every attack phase the acting player's hand has grown
\* by exactly one card if at least one attack of the phase captured a
\* territory, however many did, and is unchanged otherwise; the hands of the
\* other players are unchanged by the phase.
C15_CardForCapture ==
    /\ [][CallIs("attack")
            => /\ pc.captures >= 1
                    => /\ HandTotal(cards'[CurrentPlayer]) = HandTotal(cards[CurrentPlayer]) + 1
                       /\ \A i \in 1 .. 3 : cards'[CurrentPlayer][i] >= cards[CurrentPlayer][i]
               /\ pc.captures = 0 => cards'[CurrentPlayer] = cards[CurrentPlayer]
               /\ \A q \in 0 .. (n_players - 1) :
                     q # CurrentPlayer => cards'[q] = cards[q]]_vars
    /\ [][CallIs("attack_move") => cards' = cards]_vars

C15_Witness ==
    /\ last.op = "attack"
    /\ pc.captures >= 2
    /\ HandTotal(cards[CurrentPlayer]) = HandTotal(cards[(CurrentPlayer + 1) % n_players]) + 1

(***************************************************************************)
(* Board: the moves open to a player (src/board.py 116-166, 262-286).      *)
(* The generators and lists of the code are sets of tuples here.           *)
(***************************************************************************)
\* every territory of the player counts as mobile, whatever its armies
mobile_with_one_army(d, player_id) ==
    {d[tid] : tid \in {t \in DOMAIN d : owner(d, t) = player_id /\ armies(d, t) > 0}}

mobile(d, player_id) ==
    {d[tid] : tid \in {t \in DOMAIN d : owner(d, t) = player_id /\ armies(d, t) > 1}}

neighbors(d, territory_id) ==
    {d[tid] : tid \in {t \in DOMAIN d : t \in territory_neighbors[territory_id]}}

hostile_neighbors(d, territory_id) ==
    {d[tid] : tid \in {t \in DOMAIN d : /\ owner(d, t) # owner(d, territory_id)
                                        /\ t \in territory_neighbors[territory_id]}}

friendly_neighbors(d, territory_id) ==
    {d[tid] : tid \in {t \in DOMAIN d : /\ owner(d, t) = owner(d, territory_id)
                                        /\ t \in territory_neighbors[territory_id]}}

\* tuples (fr_tid, fr_arm, to_tid, to_pid, to_arm)
possible_attacks(d, player_id) ==
    UNION {{<<fr[1], fr[3], to[1], to[2], to[3]>> : to \in hostile_neighbors(d, fr[1])} :
              fr \in mobile(d, player_id)}

possible_fortifications(d, player_id) ==
    UNION {{<<fr[1], fr[3], to[1], to[2], to[3]>> : to \in friendly_neighbors(d, fr[1])} :
              fr \in mobile(d, player_id)}

(***************************************************************************)
(* The Random and Basic agents (src/player.py 173-244).  An operator gives *)
(* the set of answers the method can return in a state: None is <<>>, a    *)
(* move is <<from, to, n>>, a territory or a set name is <<x>>.  random    *)
(* picks any element; max and min pick an element with the extreme key    *)
(* (the code takes the first of them in list order).  Keys that are        *)
(* quotients are kept as fractions [num, den] with den > 0.                *)
(***************************************************************************)
RECURSIVE SumTuples(_)
SumTuples(tuples) ==
    IF tuples = {} THEN 0
    ELSE LET x == CHOOSE y \in tuples : TRUE
         IN x[3] + SumTuples(tuples \ {x})

FracMinus(a, b) == [num |-> a.num * b.den - b.num * a.den, den |-> a.den * b.den]

FracLeq(a, b) == a.num * b.den <= b.num * a.den

army_ratio(a) == [num |-> a[2] - 1, den |-> a[5]]

army_vantage(d, territory_id) ==
    LET own_armies == armies(d, territory_id)
        htl_armies == SumTuples(hostile_neighbors(d, territory_id))
    IN [num |-> htl_armies, den |-> htl_armies + own_armies]

army_vantage_ratio(d, a) == FracMinus(army_vantage(d, a[1]), army_vantage(d, a[3]))

territory_vantage(d, territory_id) ==
    LET htl_nb == Cardinality(hostile_neighbors(d, territory_id))
        own_nb == Cardinality(friendly_neighbors(d, territory_id))
    IN [num |-> htl_nb, den |-> htl_nb + own_nb]

RandomReinforceMixin_reinforce(d, player_id) ==
    {<<territory_id>> : territory_id \in territories_of(d, player_id)}

\* a Random agent that may keep its cards whenever it likes
RandomReinforceMixin_turn_in_cards_at_will(hand) ==
    {<<>>} \cup {<<s[1]>> : s \in complete_sets(hand)}

RandomReinforceMixin_turn_in_cards(hand) ==
    LET complete == {s[1] : s \in complete_sets(hand)}
    IN IF complete = {} THEN {<<>>}
       ELSE (IF obligatory_turn_in(hand) THEN {} ELSE {<<>>})
            \cup {<<set_name>> : set_name \in complete}

RandomAttackMixin_attack(d, player_id) ==
    LET pa == possible_attacks(d, player_id)
    IN (IF n_armies(d, player_id) < 50 \/ pa = {} THEN {<<>>} ELSE {})
       \cup {<<a[1], a[3], a[2] - 1>> : a \in pa}

RandomFortifyMixin_fortify(d, player_id) ==
    LET pf == possible_fortifications(d, player_id)
    IN IF pf = {} THEN {<<>>}
       ELSE UNION {{<<a[1], a[3], n>> : n \in 1 .. (a[2] - 1)} : a \in pf}

RuleBasedCardsBase_turn_in_cards(hand) ==
    LET complete == complete_sets(hand)
    IN IF obligatory_turn_in(hand)
       THEN {<<s[1]>> : s \in {x \in complete : \A y \in complete : y[2] <= x[2]}}
       ELSE IF "mix" \in {s[1] : s \in complete} THEN {<<"mix">>}
       ELSE {<<>>}

BasicReinforceMixin_reinforce(d, m, player_id) ==
    LET mine == territories_of(d, player_id)
        few == {o \in mine : armies(d, o) < 2}
        options == IF m.kind = "TerritoryMission" /\ Cardinality(mine) >= 18
                   THEN (IF few = {} THEN mine ELSE few)
                   ELSE mine
    IN {<<o>> : o \in {x \in options :
                         \A y \in options :
                            FracLeq(territory_vantage(d, x), territory_vantage(d, y))}}

\* attack with every army of the territory, leaving none behind
BasicAttackMixin_attack_all_in(d, player_id) ==
    LET pa == possible_attacks(d, player_id)
        best == {a \in pa : \A b \in pa : FracLeq(army_ratio(b), army_ratio(a))}
    IN IF pa = {} THEN {<<>>}
       ELSE {IF a[2] - 1 < a[5] THEN <<>> ELSE <<a[1], a[3], a[2]>> : a \in best}

BasicAttackMixin_attack(d, player_id) ==
    LET pa == possible_attacks(d, player_id)
        best == {a \in pa : \A b \in pa : FracLeq(army_ratio(b), army_ratio(a))}
    IN IF pa = {} THEN {<<>>}
       ELSE {IF a[2] - 1 < a[5] THEN <<>> ELSE <<a[1], a[3], a[2] - 1>> : a \in best}

BasicFortifyMixin_fortify(d, player_id) ==
    LET pf == possible_fortifications(d, player_id)
        best == {a \in pf : \A b \in pf :
                    FracLeq(army_vantage_ratio(d, b), army_vantage_ratio(d, a))}
    IN IF pf = {} THEN {<<>>}
       ELSE {<<a[1], a[3], a[2] - 1>> : a \in best}

(***************************************************************************)
(* SpecMoves: a created board for MinPlayers players, and a board on which *)
(* player 0 holds the 18 territories of two continents and the             *)
(* TerritoryMission; on the territories 0 - 1 - 2 any of the players 0 and *)
(* 1 as owner and 1..MaxArmies armies, the hands empty, or else every      *)
(* player holding the same hand of AgentHands.  The moves open to a player *)
(* are asked of the board, and the decisions of a living player's agent    *)
(* (Random or Basic) are asked.                                            *)
(***************************************************************************)
AgentKinds == {"Random", "Basic"}

AgentHands == InitialHands \cup {<<1, 1, 1>>, <<3, 3, 0>>}

BigBoard ==
    GameBoard(MinPlayers, [c \in ContinentIds |-> IF c < 2 THEN 0 ELSE 1 + (c % 2)], FALSE, 1)

MoveGames ==
    {[board |-> create(MinPlayers, NoExchange), missions |-> GameMissions(MinPlayers, 0)],
     [board |-> BigBoard, missions |-> GameMissions(MinPlayers, 7)]}

MoveBoard(base, owners, garrison) ==
    [tid \in TerritoryIds |->
        IF tid \in MoveTerritories THEN <<tid, owners[tid], garrison[tid]>> ELSE base[tid]]

InitMoves ==
    /\ n_players = MinPlayers
    /\ \E game \in MoveGames :
          /\ missions = game.missions
          /\ \/ /\ \E owners \in [MoveTerritories -> 0 .. 1],
                       garrison \in [MoveTerritories -> 1 .. MaxArmies] :
                       data = MoveBoard(game.board, owners, garrison)
                /\ cards = assign_cards(MinPlayers)
             \/ /\ data = game.board
                /\ \E hand \in AgentHands : cards = [p \in 0 .. (MinPlayers - 1) |-> hand]
    /\ turn = -1
    /\ players = <<>>
    /\ pc = <<>>
    /\ ratings = <<>>
    /\ pool = <<>>
    /\ last = NoCall

PossibleAttacks ==
    /\ last.op = "none"
    /\ \E player_id \in 0 .. (n_players - 1) :
          last' = [NoCall EXCEPT !.op = "possible_attacks", !.args = <<player_id>>,
                                 !.ret = <<possible_attacks(data, player_id)>>]
    /\ UNCHANGED <<n_players, data, missions, cards, turn, players, pc, ratings, pool>>

PossibleFortifications ==
    /\ last.op = "none"
    /\ \E player_id \in 0 .. (n_players - 1) :
          last' = [NoCall EXCEPT !.op = "possible_fortifications", !.args = <<player_id>>,
                                 !.ret = <<possible_fortifications(data, player_id)>>]
    /\ UNCHANGED <<n_players, data, missions, cards, turn, players, pc, ratings, pool>>

PlayerAttack ==
    /\ last.op = "none"
    /\ \E kind \in AgentKinds, player_id \in 0 .. (n_players - 1) :
          /\ is_alive(data, player_id)
          /\ \E answer \in IF kind = "Random" THEN RandomAttackMixin_attack(data, player_id)
                           ELSE BasicAttackMixin_attack(data, player_id) :
                last' = [NoCall EXCEPT !.op = "player_attack", !.args = <<kind, player_id>>,
                                       !.ret = answer]
    /\ UNCHANGED <<n_players, data, missions, cards, turn, players, pc, ratings, pool>>

PlayerFortify ==
    /\ last.op = "none"
    /\ \E kind \in AgentKinds, player_id \in 0 .. (n_players - 1) :
          /\ is_alive(data, player_id)
          /\ \E answer \in IF kind = "Random" THEN RandomFortifyMixin_fortify(data, player_id)
                           ELSE BasicFortifyMixin_fortify(data, player_id) :
                last' = [NoCall EXCEPT !.op = "player_fortify", !.args = <<kind, player_id>>,
                                       !.ret = answer]
    /\ UNCHANGED <<n_players, data, missions, cards, turn, players, pc, ratings, pool>>

PlayerReinforce ==
    /\ last.op = "none"
    /\ \E kind \in AgentKinds, player_id \in 0 .. (n_players - 1) :
          /\ is_alive(data, player_id)
          /\ \E answer \in IF kind = "Random"
                           THEN RandomReinforceMixin_reinforce(data, player_id)
                           ELSE BasicReinforceMixin_reinforce(data, missions[player_id],
                                                              player_id) :
                last' = [NoCall EXCEPT !.op = "player_reinforce", !.args = <<kind, player_id>>,
                                       !.ret = answer]
    /\ UNCHANGED <<n_players, data, missions, cards, turn, players, pc, ratings, pool>>

PlayerTurnInCards ==
    /\ last.op = "none"
    /\ \E kind \in AgentKinds, player_id \in 0 .. (n_players - 1) :
          /\ is_alive(data, player_id)
          /\ \E answer \in IF kind = "Random"
                           THEN RandomReinforceMixin_turn_in_cards(cards[player_id])
                           ELSE RuleBasedCardsBase_turn_in_cards(cards[player_id]) :
                last' = [NoCall EXCEPT !.op = "player_turn_in_cards",
                                       !.args = <<kind, player_id>>, !.ret = answer]
    /\ UNCHANGED <<n_players, data, missions, cards, turn, players, pc, ratings, pool>>

NextMoves ==
    \/ PossibleAttacks \/ PossibleFortifications
    \/ PlayerAttack \/ PlayerFortify \/ PlayerReinforce \/ PlayerTurnInCards
    \/ Proceed

SpecMoves == InitMoves /\ [][NextMoves]_vars

(***************************************************************************)
(* Properties of the possible moves and of the agents' decisions.          *)
(***************************************************************************)
Adjacent(from, to) == to \in territory_neighbors[from]

Pairs(moves) == {<<m[1], m[3]>> : m \in moves}

\* C21: possible_attacks(p) lists exactly the pairs (from, to) with
\* owner(from) = p, armies(from) > 1, to adjacent to from and owner(to) # p,
\* and possible_fortifications(p) exactly those with owner(to) = p instead.
C21_PossibleMoves ==
    /\ [][CallIs("possible_attacks")
            => Pairs(last'.ret[1]) =
                  {pair \in TerritoryIds \X TerritoryIds :
                      /\ data[pair[1]][2] = Arg(1)
                      /\ data[pair[1]][3] > 1
                      /\ Adjacent(pair[1], pair[2])
                      /\ data[pair[2]][2] # Arg(1)}]_vars
    /\ [][CallIs("possible_fortifications")
            => Pairs(last'.ret[1]) =
                  {pair \in TerritoryIds \X TerritoryIds :
                      /\ data[pair[1]][2] = Arg(1)
                      /\ data[pair[1]][3] > 1
                      /\ Adjacent(pair[1], pair[2])
                      /\ data[pair[2]][2] = Arg(1)}]_vars

C21_Witness ==
    /\ last.op = "possible_attacks"
    /\ \E m \in last.ret[1] : m[1] = 1 /\ m[3] = 2
    /\ ~ \E m \in last.ret[1] : m[1] = 1 /\ m[3] = 0
    /\ data[0][2] = last.args[1]
    /\ data[0][3] = 1

LegalAttack(d, p, mv) ==
    /\ d[mv[1]][2] = p
    /\ mv[3] >= 1
    /\ d[mv[1]][3] > mv[3]
    /\ d[mv[2]][2] # d[mv[1]][2]
    /\ Adjacent(mv[1], mv[2])

LegalFortify(d, p, mv) ==
    /\ d[mv[1]][2] = p
    /\ mv[3] >= 0
    /\ d[mv[1]][3] > mv[3]
    /\ d[mv[2]][2] = d[mv[1]][2]
    /\ Adjacent(mv[1], mv[2])

\* C22: every decision the Random and Basic agents return is legal in the
\* state in which it is returned: attack is None or a triple that passes the
\* preconditions of Board.attack and the engine's ownership check, fortify is
\* None or a triple that passes the preconditions of Board.fortify, reinforce
\* is a territory the player owns, turn_in_cards is None or a complete set.
C22_AgentsLegal ==
    /\ [][CallIs("player_attack")
            => (last'.ret = <<>> \/ LegalAttack(data, Arg(2), last'.ret))]_vars
    /\ [][CallIs("player_fortify")
            => (last'.ret = <<>> \/ LegalFortify(data, Arg(2), last'.ret))]_vars
    /\ [][CallIs("player_reinforce")
            => (Len(last'.ret) = 1 /\ data[last'.ret[1]][2] = Arg(2))]_vars
    /\ [][CallIs("player_turn_in_cards")
            => (last'.ret = <<>>
                \/ (/\ last'.ret[1] \in CardSetNames
                    /\ Covers(cards[Arg(2)], StatedPattern[last'.ret[1]])))]_vars

C22_Witness ==
    /\ last.op = "player_attack"
    /\ last.args[1] = "Basic"
    /\ Len(last.ret) = 3
    /\ data[last.ret[1]][3] = last.ret[3] + 1
    /\ data[last.ret[2]][3] < last.ret[3]
    /\ \E tid \in territory_neighbors[last.ret[1]] : data[tid][2] = last.args[2]

(***************************************************************************)
(* Missions: score (src/src/missions.py 46-193).  The scores are floats    *)
(* that are quotients of counts; they are kept as fractions [num, den].    *)
(***************************************************************************)
FracAdd(a, b) == [num |-> a.num * b.den + b.num * a.den, den |-> a.den * b.den]

FracMax(a, b) == IF FracLeq(a, b) THEN b ELSE a

\* float(len(p_data)) / len(c_data)
continent_fraction(d, continent_id, player_id) ==
    [num |-> Cardinality({tid \in continent(d, continent_id) : owner(d, tid) = player_id}),
     den |-> Cardinality(continent(d, continent_id))]

\* sum(board.continent_fraction(cid, player_id) for cid in continents)
RECURSIVE SumFractions(_, _, _)
SumFractions(d, player_id, continent_ids) ==
    IF continent_ids = <<>> THEN [num |-> 0, den |-> 1]
    ELSE FracAdd(continent_fraction(d, Head(continent_ids), player_id),
                 SumFractions(d, player_id, Tail(continent_ids)))

\* max(board.continent_fraction(cid, player_id) for cid in other_continents)
RECURSIVE MaxFraction(_, _, _)
MaxFraction(d, player_id, continent_ids) ==
    LET cid == CHOOSE c \in continent_ids : TRUE
        first == continent_fraction(d, cid, player_id)
    IN IF continent_ids = {cid} THEN first
       ELSE FracMax(first, MaxFraction(d, player_id, continent_ids \ {cid}))

\* max(0., board.n_territories(self.player_id) / 24.)
BaseMission_score(m, d) ==
    [num |-> Max(0, n_territories(d, m.player_id[1])), den |-> 24]

TerritoryMission_score(m, d) == [num |-> TerritoryMission_criterium(m, d), den |-> 18]

PlayerMission_score(m, d) ==
    IF m.target_id = m.player_id
    THEN BaseMission_score(m, d)
    ELSE [num |-> 42 - n_territories(d, m.target_id[1]), den |-> 42]

ContinentMission_score(m, d) ==
    LET total == SumFractions(d, m.player_id[1], m.continents)
    IN [num |-> total.num, den |-> total.den * Len(m.continents)]

other_continents(m) ==
    {cid \in 0 .. 5 : \A i \in DOMAIN m.continents : m.continents[i] # cid}

\* the score of the given continents alone, without the continent of choice
ExtraContinentMission_score_of_given(m, d) ==
    LET base_score == SumFractions(d, m.player_id[1], m.continents)
    IN [num |-> base_score.num, den |-> base_score.den * Len(m.continents)]

ExtraContinentMission_score(m, d) ==
    LET base_score == SumFractions(d, m.player_id[1], m.continents)
        add_score == MaxFraction(d, m.player_id[1], other_continents(m))
        total == FracAdd(base_score, add_score)
    IN [num |-> total.num, den |-> total.den * (Len(m.continents) + 1)]

\* score: ValueError for an unassigned mission, else the class's _score
score(m, d) ==
    IF m.player_id = <<>> THEN [err |-> "ValueError", ret |-> <<>>]
    ELSE [err |-> "none",
          ret |-> CASE m.kind = "BaseMission" -> BaseMission_score(m, d)
                    [] m.kind = "TerritoryMission" -> TerritoryMission_score(m, d)
                    [] m.kind = "PlayerMission" -> PlayerMission_score(m, d)
                    [] m.kind = "ContinentMission" -> ContinentMission_score(m, d)
                    [] m.kind = "ExtraContinentMission" ->
                           ExtraContinentMission_score(m, d)]

(***************************************************************************)
(* SpecMissions: one mission out of missions(n_players), as the list       *)
(* returns it (unassigned), assigned to a player and to another, evaluated *)
(* and scored on a board.  The boards: player 0 owns the territories below *)
(* a frontier (any of 0..42) and player 1 the others; the territories      *)
(* below a second mark hold one army more than the others, which hold      *)
(* 1..MaxGarrison.  The marks put 17, 18 or all territories at 2 armies.   *)
(* And the boards of SpecWinner on which players 0 and 1 hold the          *)
(* continents, whole or but for the first territory of each.               *)
(***************************************************************************)
StrongMarks == {0, 17, 18, NTerritories}

FrontierBoard(frontier, strong, garrison) ==
    [tid \in TerritoryIds |->
        <<tid,
          IF tid < frontier THEN 0 ELSE 1,
          IF tid < strong THEN garrison + 1 ELSE garrison>>]

InitMissions ==
    /\ n_players = MinPlayers
    /\ \/ \E frontier \in 0 .. NTerritories, strong \in StrongMarks,
             garrison \in 1 .. MaxGarrison :
             data = FrontierBoard(frontier, strong, garrison)
       \/ \E holder \in [ContinentIds -> 0 .. 1], border \in BOOLEAN,
             garrison \in 1 .. MaxGarrison :
             data = GameBoard(MinPlayers, holder, border, garrison)
    /\ \E i \in DOMAIN available_missions(MinPlayers) :
          missions = <<available_missions(MinPlayers)[i]>>
    /\ cards = <<>>
    /\ turn = -1
    /\ players = <<>>
    /\ pc = <<>>
    /\ ratings = <<>>
    /\ pool = <<>>
    /\ last = NoCall

AssignTo ==
    /\ last.op = "none"
    /\ \E player_id \in 0 .. (n_players - 1) :
          missions' = <<assign_to(missions[1], player_id)>>
    /\ UNCHANGED <<n_players, data, cards, turn, last, players, pc, ratings, pool>>

Evaluate ==
    /\ last.op = "none"
    /\ LET result == evaluate(missions[1], data)
       IN last' = [NoCall EXCEPT !.op = "evaluate", !.err = result.err,
                                 !.ret = <<result.ret>>]
    /\ UNCHANGED <<n_players, data, missions, cards, turn, players, pc, ratings, pool>>

Score ==
    /\ last.op = "none"
    /\ LET result == score(missions[1], data)
       IN last' = [NoCall EXCEPT !.op = "score", !.err = result.err,
                                 !.ret = <<result.ret>>]
    /\ UNCHANGED <<n_players, data, missions, cards, turn, players, pc, ratings, pool>>

NextMissions == AssignTo \/ Evaluate \/ Score \/ Proceed

SpecMissions == InitMissions /\ [][NextMissions]_vars

(***************************************************************************)
(* Properties of the missions.                                             *)
(***************************************************************************)
\* C24: score(board) of an assigned mission lies in [0, 1], for every mission
\* variant, every player and every board.
C24_ScoreInUnitInterval ==
    (last.op = "score" /\ last.err = "none")
        => (0 <= last.ret[1].num /\ last.ret[1].num <= last.ret[1].den)

StronglyHeld(d, p) == {tid \in OwnedBy(d, p) : d[tid][3] >= 2}

create_rating == [won |-> 0, lost |-> 0]

\* TrueskillRanker.__getitem__: the rating on record, else a new rating
rating_of(r, player_id) ==
    IF player_id \in DOMAIN r THEN r[player_id] ELSE create_rating

SeqToSet(s) == {s[i] : i \in DOMAIN s}

update(r, winner_pids, loser_pids) ==
    [pid \in DOMAIN r \cup SeqToSet(winner_pids) \cup SeqToSet(loser_pids) |->
        IF pid \in SeqToSet(loser_pids)
        THEN [rating_of(r, pid) EXCEPT !.lost = @ + 1]
        ELSE IF pid \in SeqToSet(winner_pids)
        THEN [rating_of(r, pid) EXCEPT !.won = @ + 1]
        ELSE r[pid]]

\* rank: the rated player ids, each once, in one of the orders sorted() can give
rank(r) ==
    {order \in [1 .. Cardinality(DOMAIN r) -> DOMAIN r] :
        \A i, j \in DOMAIN order : i # j => order[i] # order[j]}

\* the draws of random.shuffle on a list of m elements
AllDraws(m) == {draws \in [1 .. (m - 1) -> 0 .. (m - 1)] : \A i \in DOMAIN draws : draws[i] <= i}

\* ids = self.player_ids; random.shuffle(ids)
shuffled_ids(ids, draws) ==
    LET m == Cardinality(ids)
        listed == [i \in 0 .. (m - 1) |->
                      CHOOSE pid \in ids : Cardinality({q \in ids : q < pid}) = i]
        mixed == shuffle(listed, m - 1, draws)
    IN [k \in 1 .. m |-> mixed[k - 1]]

\* the last n elements of a list: ids[-n:]
LastOf(ids, n) == SubSeq(ids, Max(1, Len(ids) - n + 1), Len(ids))

\* a padding that may take any player of the list
padding_candidates_any(ids, n) == SeqToSet(ids)

\* list(set(ids) - set(ids[-self.n_players:]))
padding_candidates(ids, n) == SeqToSet(ids) \ SeqToSet(LastOf(ids, n))

\* while len(ids) % n > 0: ids.append(random.choice(...)); random.choice of
\* an empty list raises IndexError
RECURSIVE padded(_, _)
padded(ids, n) ==
    IF Len(ids) % n = 0 THEN {[err |-> "none", ret |-> ids]}
    ELSE IF padding_candidates(ids, n) = {} THEN {[err |-> "IndexError", ret |-> <<>>]}
    ELSE UNION {padded(Append(ids, x), n) : x \in padding_candidates(ids, n)}

\* izip(*[islice(ids, i, None, n) for i in range(n)]): consecutive runs of n
groups_of(ids, n) == [k \in 1 .. (Len(ids) \div n) |-> SubSeq(ids, (k - 1) * n + 1, k * n)]

player_pools(ids, n) ==
    UNION {{[err |-> p.err, ret |-> IF p.err = "none" THEN groups_of(p.ret, n) ELSE <<>>] :
               p \in padded(shuffled_ids(ids, draws), n)} :
           draws \in AllDraws(Cardinality(ids))}

\* the losers named by play_game: every participant, the winner too
losers_with_winner(player_ids, winner_pid) == player_ids

\* [pid for pid in player_ids if winner_pid != pid]
losers(player_ids, winner_pid) ==
    LET Other(pid) == winner_pid # pid IN SelectSeq(player_ids, Other)

(***************************************************************************)
(* PlayerPool.iteration (src/src/riskga.py 97-107), after rank() has left  *)
(* the ranked players in the pool.  A player of the pool is kept as the    *)
(* way it came into the pool: "init", "comb" or "muta".  The divisions are *)
(* those of Python 2 on integers.                                          *)
(***************************************************************************)
FirstOf(s, n) == SubSeq(s, 1, Min(n, Len(s)))

\* self.pool[:self.pool_size / 4]
good_players(ranked, pool_size) == FirstOf(ranked, pool_size \div 4)

\* the pool after the selection, or the error of random.choice on an empty
\* pool (IndexError) or of random.sample of more than the pool (ValueError)
next_generation(ranked, pool_size) ==
    IF pool_size \div 4 > 0 /\ ranked = <<>> THEN [err |-> "IndexError", ret |-> ranked]
    ELSE IF pool_size \div 2 > Len(ranked) THEN [err |-> "ValueError", ret |-> ranked]
    ELSE [err |-> "none",
          ret |-> good_players(ranked, pool_size)
                    \o [i \in 1 .. (pool_size \div 4) |-> "comb"]
                    \o [i \in 1 .. (pool_size \div 2) |-> "muta"]]

(***************************************************************************)
(* SpecRanker: a RiskRanker made for m players with match size n_players,  *)
(* run(k), then rank().  pc holds the position: the iterations still to    *)
(* run, the groups of the iteration still to play, the group of the match  *)
(* being played, the number i of turns played in it and its winner.  What  *)
(* happens inside a turn is the Game's; here a turn ends the match with    *)
(* any of its players as the winner, or does not end it.                   *)
(***************************************************************************)
MaxTurns == 2

\* <<number of players passed, n_players, iterations of run>>
RankerSetups ==
    {<<0, 3, 1>>, <<2, 3, 1>>, <<3, 4, 1>>, <<2, 2, 1>>, <<3, 3, 2>>, <<4, 3, 1>>,
     <<5, 3, 1>>, <<5, 2, 1>>, <<4, 4, 1>>, <<5, 5, 1>>, <<6, 6, 1>>}

Position(phase, runs, pool_size, ranking_iterations) ==
    [phase |-> phase, runs |-> runs, groups |-> <<>>, game |-> <<>>, i |-> 0,
     winner |-> <<>>, pool_size |-> pool_size, ranking_iterations |-> ranking_iterations,
     iteration_counter |-> 0]

InitRanker ==
    /\ \E setup \in RankerSetups :
          /\ players = 1 .. setup[1]
          /\ n_players = setup[2]
          /\ pc = Position("idle", setup[3], 0, 0)
    /\ ratings = <<>>
    /\ pool = <<>>
    /\ data = <<>>
    /\ missions = <<>>
    /\ cards = <<>>
    /\ turn = -1
    /\ last = NoCall

\* RiskRanker.iteration, up to the first match: the groups of player_pools()
Iteration ==
    /\ last.op = "none"
    /\ pc.phase = "idle"
    /\ pc.runs > 0
    /\ \E r \in player_pools(players, n_players) :
          /\ last' = [NoCall EXCEPT !.op = "player_pools", !.err = r.err, !.ret = r.ret]
          /\ pc' = IF r.err # "none" THEN [pc EXCEPT !.phase = "raised"]
                   ELSE IF r.ret = <<>> THEN [pc EXCEPT !.runs = @ - 1]
                   ELSE [pc EXCEPT !.phase = "iteration", !.runs = @ - 1, !.groups = r.ret]
    /\ UNCHANGED <<n_players, data, missions, cards, turn, players, ratings, pool>>

\* play_game, lines 124-129: the next group starts its match
PlayGameCreate ==
    /\ pc.phase = "iteration"
    /\ pc.game = <<>>
    /\ pc.groups # <<>>
    /\ pc' = [pc EXCEPT !.game = Head(pc.groups), !.groups = Tail(pc.groups), !.i = 0,
                        !.winner = <<>>]
    /\ last' = NoCall
    /\ UNCHANGED <<n_players, data, missions, cards, turn, players, ratings, pool>>

\* one pass of the loop: g.play_turn(); if g.has_ended(): break
PlayTurn ==
    /\ pc.phase = "iteration"
    /\ pc.game # <<>>
    /\ pc.winner = <<>>
    /\ pc.i < MaxTurns
    /\ \E winner_pid \in {<<>>} \cup {<<pid>> : pid \in SeqToSet(pc.game)} :
          pc' = [pc EXCEPT !.i = @ + 1, !.winner = winner_pid]
    /\ last' = NoCall
    /\ UNCHANGED <<n_players, data, missions, cards, turn, players, ratings, pool>>

\* play_game, lines 134-138: the loop is over; the update, if there is a winner
PlayGameEnd ==
    /\ pc.phase = "iteration"
    /\ pc.game # <<>>
    /\ pc.winner # <<>> \/ pc.i >= MaxTurns
    /\ IF pc.winner # <<>>
       THEN LET loser_pids == losers(pc.game, pc.winner[1])
            IN /\ ratings' = update(ratings, pc.winner, loser_pids)
               /\ last' = [NoCall EXCEPT !.op = "play_game", !.args = <<pc.game>>,
                                         !.trace = <<<<pc.winner, loser_pids>>>>]
       ELSE /\ ratings' = ratings
            /\ last' = [NoCall EXCEPT !.op = "play_game", !.args = <<pc.game>>]
    /\ pc' = [pc EXCEPT !.game = <<>>, !.i = 0, !.winner = <<>>,
                        !.phase = IF pc.groups = <<>> THEN "idle" ELSE "iteration"]
    /\ UNCHANGED <<n_players, data, missions, cards, turn, players, pool>>

\* rank() after run(k)
Rank ==
    /\ pc.phase = "idle"
    /\ pc.runs = 0
    /\ pc.pool_size = 0
    /\ last.op = "none"
    /\ \E order \in rank(ratings) : last' = [NoCall EXCEPT !.op = "rank", !.ret = <<order>>]
    /\ UNCHANGED <<n_players, data, missions, cards, turn, players, pc, ratings, pool>>

NextRanker == Iteration \/ PlayGameCreate \/ PlayTurn \/ PlayGameEnd \/ Rank \/ Proceed

SpecRanker == InitRanker /\ [][NextRanker]_vars

(***************************************************************************)
(* SpecPool: a PlayerPool of pool_size new players and its iteration():    *)
(* rank() makes a RiskRanker of the pool, runs it as above and takes the   *)
(* ranked players as the pool, and the selection makes the next pool.      *)
(***************************************************************************)
MaxGenerations == 2

\* <<pool_size, n_players, ranking_iterations>>
PoolSetups == {<<4, 3, 1>>, <<5, 3, 1>>, <<6, 3, 1>>, <<4, 4, 2>>}

InitPool ==
    /\ \E setup \in PoolSetups :
          /\ pool = [i \in 1 .. setup[1] |-> "init"]
          /\ n_players = setup[2]
          /\ pc = Position("pool", 0, setup[1], setup[3])
    /\ players = {}
    /\ ratings = <<>>
    /\ data = <<>>
    /\ missions = <<>>
    /\ cards = <<>>
    /\ turn = -1
    /\ last = NoCall

\* iteration(), lines 101-102 and 125: the counter, and the ranker of rank()
PoolRank ==
    /\ last.op = "none"
    /\ pc.phase = "pool"
    /\ pc.iteration_counter < MaxGenerations
    /\ players' = 1 .. Len(pool)
    /\ ratings' = <<>>
    /\ pc' = [pc EXCEPT !.phase = "idle", !.iteration_counter = @ + 1,
                        !.runs = pc.ranking_iterations]
    /\ last' = NoCall
    /\ UNCHANGED <<n_players, data, missions, cards, turn, pool>>

\* rank(), line 127, and iteration(), lines 103-107
PoolSelect ==
    /\ last.op = "none"
    /\ pc.phase = "idle"
    /\ pc.runs = 0
    /\ pc.pool_size > 0
    /\ \E order \in rank(ratings) :
          LET ranked == [k \in DOMAIN order |-> pool[order[k]]]
              r == next_generation(ranked, pc.pool_size)
          IN /\ pool' = r.ret
             /\ last' = [NoCall EXCEPT !.op = "iteration", !.err = r.err]
             /\ pc' = IF r.err # "none" THEN [pc EXCEPT !.phase = "raised"]
                      ELSE [pc EXCEPT !.phase = "pool"]
    /\ UNCHANGED <<n_players, data, missions, cards, turn, players, ratings>>

NextPool ==
    PoolRank \/ Iteration \/ PlayGameCreate \/ PlayTurn \/ PlayGameEnd \/ PoolSelect \/ Proceed

SpecPool == InitPool /\ [][NextPool]_vars

(***************************************************************************)
(* Properties of the rankers and of the genetic pool.                      *)
(***************************************************************************)
\* C26: after any number of PlayerPool.iteration() calls, for any pool size
\* and any match outcomes, the pool contains exactly pool_size members.
C26_PoolSize ==
    pc.phase \in {"pool", "raised"} => Len(pool) = pc.pool_size

\* C27: after RiskRanker.run(k), k >= 1, rank() contains exactly one entry for
\* every player that was passed to the RiskRanker, whatever the outcomes of the
\* matches played.
C27_RankComplete ==
    last.op = "rank"
        => (/\ SeqToSet(last.ret[1]) = players
            /\ Len(last.ret[1]) = Cardinality(players))

\* C28: play_game plays at most max_turns turns and then makes at most one
\* rating update: exactly one, with the winner as the single winner and all
\* the other participants of the match as losers, when the match has a winner
\* (the winner's rating records one more win, each loser's one more loss, no
\* other rating changes), and none, all ratings unchanged, when the turn cap
\* is reached with no winner.
C28_PlayGame ==
    [][CallIs("play_game")
         => /\ pc.i <= MaxTurns
            /\ Len(last'.trace) <= 1
            /\ pc.winner # <<>>
                  => /\ Len(last'.trace) = 1
                     /\ last'.trace[1][1] = pc.winner
                     /\ SeqToSet(last'.trace[1][2]) = SeqToSet(pc.game) \ {pc.winner[1]}
                     /\ Len(last'.trace[1][2]) = Len(pc.game) - 1
                     /\ DOMAIN ratings' = DOMAIN ratings \cup SeqToSet(pc.game)
                     /\ \A pid \in DOMAIN ratings' :
                           ratings'[pid] =
                              IF pid = pc.winner[1]
                              THEN [rating_of(ratings, pid) EXCEPT !.won = @ + 1]
                              ELSE IF pid \in SeqToSet(pc.game)
                              THEN [rating_of(ratings, pid) EXCEPT !.lost = @ + 1]
                              ELSE ratings[pid]
            /\ pc.winner = <<>>
                  => /\ pc.i = MaxTurns
                     /\ last'.trace = <<>>
                     /\ ratings' = ratings]_vars

\* a match abandoned at the cap after a match of the same iteration was won
C28_Witness ==
    /\ last.op = "play_game"
    /\ last.trace = <<>>
    /\ DOMAIN ratings # {}
    /\ \A pid \in SeqToSet(last.args[1]) : pid \notin DOMAIN ratings

GroupsOf(pid, groups) == {k \in DOMAIN groups : pid \in SeqToSet(groups[k])}

\* the groups as stated: every player in a group, n_players members a group,
\* no player twice in a group, repeats of a player only in the final group
GroupsAsStated(groups) ==
    /\ \A pid \in players : GroupsOf(pid, groups) # {}
    /\ \A k \in DOMAIN groups :
          /\ Len(groups[k]) = n_players
          /\ Cardinality(SeqToSet(groups[k])) = n_players
          /\ SeqToSet(groups[k]) \subseteq players
    /\ \A pid \in players :
          \/ Cardinality(GroupsOf(pid, groups)) = 1
          \/ /\ Cardinality(GroupsOf(pid, groups)) = 2
             /\ Len(groups) \in GroupsOf(pid, groups)

C38_ObligatoryHasSet ==
    /\ (last.op = "complete_sets" /\ HandTotal(cards[0]) >= 5) => last.ret[1] # {}
    /\ (last.op = "obligatory_turn_in" /\ last.ret = <<TRUE>>)
          => complete_sets(cards[0]) # {}

\* five cards, no three of a kind: the mix is the only complete set
C38_Witness ==
    /\ last.op = "complete_sets"
    /\ cards[0] = <<2, 2, 1>>
    /\ last.ret = <<{<<"mix", 10>>}>>

(***************************************************************************)
(* Further properties of the missions.                                     *)
(***************************************************************************)
\* C40: for every mission variant, assigned player and board, evaluate(board)
\* is true iff score(board) >= 1.
C40_EvaluateIffScore ==
    /\ (last.op = "evaluate" /\ last.err = "none")
          => LET s == score(missions[1], data).ret
             IN last.ret = <<s.num >= s.den>>
    /\ (last.op = "score" /\ last.err = "none")
          => (last.ret[1].num >= last.ret[1].den) = evaluate(missions[1], data).ret

\* the given continents are the player's, no other continent is: not achieved,
\* and the score is below 1
C40_Witness ==
    /\ last.op = "score"
    /\ last.err = "none"
    /\ missions[1].kind = "ExtraContinentMission"
    /\ \A i \in DOMAIN missions[1].continents :
          continent_territories[missions[1].continents[i]]
             \subseteq OwnedBy(data, missions[1].player_id[1])
    /\ last.ret[1].num < last.ret[1].den
    /\ last.ret[1].num > 0


\* ---------------------------------------------------------------------
\* C34: an attack that passed its preconditions never fails part-way: it
\* raises nothing and leaves every territory with at least one army. When
\* it captures, the attacker lost no pair, the target holds exactly the n
\* armies that moved (n >= 1) and the source gave up exactly those n.
C34_CaptureLossless ==
    [][(CallIs("attack") /\ last'.fought # <<>>) =>
          /\ last'.err = "none"
          /\ last'.ret \in {<<TRUE>>, <<FALSE>>}
          /\ \A t \in DOMAIN data' : data'[t][3] >= 1
          /\ last'.ret = <<TRUE>> =>
                /\ last'.fought[1] = 0
                /\ Arg(3) >= 1
                /\ data'[Arg(2)][3] = Arg(3)
                /\ data'[Arg(1)][3] = data[Arg(1)][3] - Arg(3)
                /\ data'[Arg(2)][2] = data[Arg(1)][2]]_vars

C34_Witness ==
    /\ last.op = "attack"
    /\ last.ret = <<TRUE>>
    /\ last.fought = <<0, 2>>
    /\ last.args[3] = 2
    /\ data[last.args[2]][3] = 2


\* ---------------------------------------------------------------------
\* C35: every attack that Game.attack passes on to the board and that is
\* fought takes one or two armies off the board (one per pair of dice
\* compared), the total never falls below the 42 territories, and every
\* step that leaves the player in the attack phase has strictly fewer
\* armies on the board than before: the loop of Game.attack runs at most
\* (total armies - 42) times.
C35_AttacksConsumeArmies ==
    [][/\ (CallIs("attack_move") /\ last'.fought # <<>>) =>
              /\ TotalArmies(data) - TotalArmies(data') = last'.fought[1] + last'.fought[2]
              /\ TotalArmies(data) - TotalArmies(data') \in {1, 2}
       /\ (pc.method = "attack" /\ pc'.method = "attack") =>
              TotalArmies(data') < TotalArmies(data)
       /\ TotalArmies(data') >= NTerritories]_vars

C35_Witness ==
    /\ last.op = "attack_move"
    /\ last.fought = <<1, 1>>
    /\ pc.method = "attack"
    /\ pc.captures = 1
    /\ TotalArmies(data) > NTerritories


(***************************************************************************)
(* SpecMatch: a match of MinPlayers players in which players get           *)
(* eliminated.  One player holds the territories 3 .. 41 with one army     *)
(* each, the territories 0 - 1 - 2 are held by any players with 1 ..       *)
(* MaxGarrison armies, every player holds the same hand of four or five     *)
(* cards, and it is the turn of any player who is alive.  play_turn is     *)
(* called: its check of the current player is one action, and the phases   *)
(* and next_turn follow as in SpecTurn.  The agents are the Random and the *)
(* rule-based ones: the holder of territory 41 places there and the others *)
(* on a territory of theirs, attacks and fortifications are the answers of *)
(* the mixins (a fortification of at most MaxArmies armies) or else a move *)
(* that the board rejects, which leaves the turn.  play_turn is            *)
(* called twice: the first call is played phase by phase, of the second    *)
(* (after the first has returned or raised) only the check is taken.       *)
(* pc.calls counts the calls.                                              *)
(***************************************************************************)
\* hands of four cards, and of five with and without one card of every type
MatchHands == {<<3, 0, 1>>, <<2, 2, 1>>, <<3, 2, 0>>}

MatchBoard(rest_owner, owners, garrison) ==
    [tid \in TerritoryIds |->
        IF tid \in MoveTerritories THEN <<tid, owners[tid], garrison>>
        ELSE <<tid, rest_owner, 1>>]

InitMatch ==
    /\ n_players = MinPlayers
    /\ \E rest_owner \in {0, 2}, owners \in [MoveTerritories -> 0 .. (MinPlayers - 1)],
          garrison \in 1 .. MaxGarrison :
          data = MatchBoard(rest_owner, owners, garrison)
    /\ missions = GameMissions(MinPlayers, 0)
    /\ \E hand \in MatchHands : cards = [p \in 0 .. (MinPlayers - 1) |-> hand]
    /\ turn \in {t \in 0 .. (MinPlayers - 1) : is_alive(data, t)}
    /\ players = <<>>
    /\ pc = [method |-> "play_turn", did_win |-> FALSE, captures |-> 0, asked |-> 0,
             calls |-> 0]
    /\ ratings = <<>>
    /\ pool = <<>>
    /\ last = NoCall

\* the first statement of Game.play_turn; the phases follow as actions
GamePlayTurn ==
    /\ pc.method \in {"play_turn", "played", "aborted"}
    /\ LET current == current_player_id(turn, n_players)
           alive == current # <<>> /\ is_alive(data, current[1])
       IN /\ pc' = [method |-> IF ~alive THEN "game_over"
                                ELSE IF pc.method = "play_turn" THEN "reinforce"
                                ELSE "checked",
                    did_win |-> FALSE, captures |-> 0, asked |-> 0,
                    calls |-> pc.calls + 1]
          /\ last' = [NoCall EXCEPT !.op = "play_turn", !.args = current,
                                    !.err = IF alive THEN "none" ELSE "Exception"]
    /\ UNCHANGED <<n_players, data, missions, cards, turn, players, ratings, pool>>

ReinforceAnswers(d, player_id) ==
    {a \in RandomReinforceMixin_reinforce(d, player_id) :
        IF owner(d, NTerritories - 1) = player_id THEN a[1] = NTerritories - 1
        ELSE a[1] \in MoveTerritories}

TurnInAnswers(hand) ==
    RandomReinforceMixin_turn_in_cards(hand) \cup RuleBasedCardsBase_turn_in_cards(hand)

\* a move that Board.attack and Board.fortify reject on every board
RejectedMove == <<0, 0, 1>>

AttackAnswers(d, player_id) ==
    RandomAttackMixin_attack(d, player_id) \cup BasicAttackMixin_attack(d, player_id)
        \cup {RejectedMove}

FortifyAnswers(d, player_id) ==
    {f \in RandomFortifyMixin_fortify(d, player_id) \cup BasicFortifyMixin_fortify(d, player_id) :
        f # <<>> /\ f[3] <= MaxArmies} \cup {RejectedMove}

\* Game.reinforce with the answers of a Random or a rule-based agent
AgentReinforce ==
    /\ pc.method = "reinforce"
    /\ LET player_id == current_player_id(turn, n_players)[1]
       IN \E answer \in ReinforceAnswers(data, player_id),
             card_set \in TurnInAnswers(cards[player_id]) :
             LET r == Game_reinforce(data, cards, player_id, answer[1], card_set)
             IN /\ data' = r.data
                /\ cards' = r.cards
                /\ pc' = [pc EXCEPT !.method = IF r.err = "none" THEN "attack" ELSE "aborted"]
                /\ last' = [NoCall EXCEPT !.op = "reinforce",
                                          !.args = <<player_id, answer[1], card_set>>,
                                          !.trace = r.trace, !.err = r.err]
    /\ UNCHANGED <<n_players, missions, turn, players, ratings, pool>>

\* one pass of the loop of Game.attack in which the agent answers a move
AgentAttack ==
    /\ pc.method = "attack"
    /\ \E move \in AttackAnswers(data, current_player_id(turn, n_players)[1]) \ {<<>>} :
          LET checked == check_owner_of_from(data, turn, n_players, move[1])
              asserted == attack_asserts(data, move[1], move[2], move[3])
          IN IF checked # "none" \/ asserted # "none"
             THEN /\ pc' = [pc EXCEPT !.method = "aborted"]
                  /\ last' = [NoCall EXCEPT !.op = "attack_move", !.args = move,
                                            !.err = IF checked # "none" THEN checked
                                                    ELSE asserted]
                  /\ data' = data
             ELSE \E fought \in fight_outcomes(move[3], armies(data, move[2])) :
                     LET r == attack_resolve(data, move[1], move[2], move[3], fought)
                     IN /\ data' = r.data
                        /\ pc' = IF r.err # "none" THEN [pc EXCEPT !.method = "aborted"]
                                 ELSE IF r.ret = <<TRUE>>
                                 THEN [pc EXCEPT !.did_win = TRUE, !.captures = @ + 1]
                                 ELSE pc
                        /\ last' = [NoCall EXCEPT !.op = "attack_move", !.args = move,
                                                  !.fought = fought, !.err = r.err,
                                                  !.ret = r.ret]
    /\ UNCHANGED <<n_players, missions, cards, turn, players, ratings, pool>>

\* Game.fortify for an agent that answers a move
AgentFortify ==
    /\ pc.method = "fortify"
    /\ \E fortification \in FortifyAnswers(data, current_player_id(turn, n_players)[1]) :
          LET checked == check_owner_of_from(data, turn, n_players, fortification[1])
              r == IF checked # "none" THEN [data |-> data, err |-> checked]
                   ELSE fortify(data, fortification[1], fortification[2], fortification[3])
          IN /\ data' = r.data
             /\ pc' = [pc EXCEPT !.method = IF r.err = "none" THEN "next_turn" ELSE "aborted",
                                 !.asked = @ + 1]
             /\ last' = [NoCall EXCEPT !.op = "fortify", !.args = fortification,
                                       !.err = r.err]
    /\ UNCHANGED <<n_players, missions, cards, turn, players, ratings, pool>>

NextMatch ==
    \/ GamePlayTurn
    \/ AgentReinforce
    \/ AgentAttack
    \/ GameAttackEnd
    \/ AgentFortify
    \/ GameFortifyNone
    \/ GameNextTurn

SpecMatch == InitMatch /\ [][NextMatch]_vars


\* the players of the game who own a territory
Alive(d) == {p \in 0 .. (n_players - 1) : is_alive(d, p)}

\* the steps from one position of play_turn to the next
PhaseSteps ==
    {<<"play_turn", "reinforce">>, <<"reinforce", "attack">>, <<"attack", "attack">>,
     <<"attack", "fortify">>, <<"fortify", "next_turn">>, <<"next_turn", "played">>,
     <<"played", "checked">>, <<"attack", "aborted">>, <<"fortify", "aborted">>,
     <<"aborted", "checked">>}

\* ---------------------------------------------------------------------
\* C33: play_turn runs reinforce, attack, fortify and next_turn in this
\* order; next_turn leaves the board alone, raises the turn counter by at
\* least one and at most n_players, passes over exactly the players who
\* own no territory and stops at the first player who owns one, also when
\* the current player is the only one left.
C33_TurnOrder ==
    [][/\ (pc'.method # pc.method \/ last' # last) =>
              <<pc.method, pc'.method>> \in PhaseSteps
       /\ CallIs("next_turn") =>
              /\ pc.method = "next_turn"
              /\ data' = data
              /\ turn' > turn
              /\ turn' <= turn + n_players
              /\ is_alive(data, turn' % n_players)
              /\ \A t \in (turn + 1) .. (turn' - 1) : ~is_alive(data, t % n_players)]_vars

C33_Witness ==
    /\ last.op = "next_turn"
    /\ pc.method = "played"
    /\ pc.captures >= 1
    /\ Alive(data) = {turn % n_players}

\* ---------------------------------------------------------------------
\* C36: a player who owns no territory owns none after any step of the
\* match; a territory changes owner only when an attack captures it, and
\* then to the owner of the territory the attack came from, who is alive;
\* at least one player owns a territory.
C36_EliminationPermanent ==
    [][/\ data' # data =>
              /\ \A p \in 0 .. (n_players - 1) : ~is_alive(data, p) => ~is_alive(data', p)
              /\ \A tid \in DOMAIN data :
                     data'[tid][2] # data[tid][2] =>
                        /\ CallIs("attack_move")
                        /\ last'.ret = <<TRUE>>
                        /\ tid = Arg(2)
                        /\ data'[tid][2] = data[Arg(1)][2]
                        /\ is_alive(data, data[Arg(1)][2])
       /\ \E p \in 0 .. (n_players - 1) : is_alive(data, p)
       /\ \E p \in 0 .. (n_players - 1) : is_alive(data', p)]_vars

C36_Witness ==
    /\ last.op = "attack_move"
    /\ last.ret = <<TRUE>>
    /\ Cardinality(Alive(data)) = 1
    /\ pc.captures = 1

\* ---------------------------------------------------------------------
\* C37: every call of play_turn finds the current player alive and does
\* not raise the game-over exception, also the call that follows a turn in
\* which players were eliminated or an exception left the turn; during his
\* turn the current player never owns fewer territories than before.
C37_NeverGameOver ==
    [][/\ CallIs("play_turn") =>
              /\ last'.err = "none"
              /\ is_alive(data, turn % n_players)
       /\ pc'.method # "game_over"
       /\ pc.method \in {"reinforce", "attack", "fortify", "next_turn"} =>
              n_territories(data', turn % n_players) >= n_territories(data, turn % n_players)]_vars

C37_Witness ==
    /\ last.op = "play_turn"
    /\ pc.calls = 2
    /\ pc.method = "checked"
    /\ ~is_alive(data, (turn - 1) % n_players)

\* ---------------------------------------------------------------------
\* C39: with agents that redeem a set whenever obligatory_turn_in holds
\* no hand ever holds more than five cards: a step adds at most one card
\* to a hand, only the end of an attack phase with a capture adds one, and
\* the reinforce phase of a player who holds five leaves him two.
C39_HandAtMostFive ==
    [][\A p \in 0 .. (n_players - 1) :
          /\ HandTotal(cards[p]) <= 5
          /\ HandTotal(cards'[p]) <= 5
          /\ HandTotal(cards'[p]) <= HandTotal(cards[p]) + 1
          /\ HandTotal(cards'[p]) > HandTotal(cards[p]) =>
                (CallIs("attack") /\ pc.did_win /\ p = turn % n_players)
          /\ (CallIs("reinforce") /\ Arg(1) = p /\ HandTotal(cards[p]) = 5) =>
                HandTotal(cards'[p]) = 2]_vars

C39_Witness ==
    /\ last.op = "reinforce"
    /\ last.args[3] = <<"infantry">>
    /\ cards[last.args[1]] = <<0, 2, 0>>


(***************************************************************************)
(* Genomes: Gene, ListGene and Genome of src/src/genome.py, and the older  *)
(* Genome of src/genome.py whose specifications are dicts with a dtype     *)
(* (bool, int, float, list).  A float is kept as a whole number of ticks,  *)
(* TicksPerUnit of them to 1.0; round(x, 0) gives the nearest whole unit   *)
(* (a half goes away from zero, as in Python 2) and round(x, d) with d >=  *)
(* 1 keeps the ticks.  random() is drawn in hundredths, and volatility is  *)
(* given in hundredths.                                                    *)
(***************************************************************************)
TicksPerUnit == 4

MaxMutations == 2

Abs(x) == IF x >= 0 THEN x ELSE -x

round(x, digits) ==
    IF digits >= 1 THEN x
    ELSE LET units == (2 * Abs(x) + TicksPerUnit) \div (2 * TicksPerUnit)
         IN IF x >= 0 THEN units * TicksPerUnit ELSE -(units * TicksPerUnit)

Gene(name, min_value, max_value, volatility, granularity, precision) ==
    [cls |-> "Gene", name |-> name, min_value |-> min_value, max_value |-> max_value,
     volatility |-> volatility, granularity |-> granularity, precision |-> precision]

ListGene(name, values, volatility) ==
    [cls |-> "ListGene", name |-> name, values |-> values, volatility |-> volatility]

\* Gene.initialize, given the draw of uniform(min_value, max_value)
Gene_initialize(s, uniform) == round(uniform, s.precision)

\* Gene.mutate, given the draws of random() and gauss(0, granularity):
\* line 35 computes the new value and drops it, line 36 returns value
Gene_mutate(s, value, random, gauss) ==
    LET dropped == round(Min(Max(value + gauss, s.min_value), s.max_value), s.precision)
    IN value

ListGene_initialize(s, choice) == choice

ListGene_mutate(s, value, random, choice) ==
    IF random < s.volatility THEN choice ELSE value

\* the older Genome.initialize(name, dtype, volatility, **kwargs)
initialize(s, draw) ==
    CASE s.dtype = "bool" -> draw
      [] s.dtype = "list" -> draw
      [] s.dtype = "int" -> draw
      [] s.dtype = "float" -> round(draw, s.digits)

mutate_int(value, min_value, max_value, choice) ==
    IF value = min_value THEN value + 1
    ELSE IF value = max_value THEN value - 1
    ELSE value + choice

mutate_float(value, min_value, max_value, gauss, digits) ==
    round(Min(Max(value + gauss, min_value), max_value), digits)

\* the older Genome.mutate_gene
mutate_gene(s, value, random, draw) ==
    IF random < s.volatility
    THEN CASE s.dtype = "bool" -> ~value
           [] s.dtype = "list" -> draw
           [] s.dtype = "int" -> mutate_int(value, s.min_value, s.max_value, draw)
           [] s.dtype = "float" ->
                 mutate_float(value, s.min_value, s.max_value, draw, s.digits)
    ELSE value

IsOlder(s) == "dtype" \in DOMAIN s

\* what the random module may hand to initialize and to mutate for a gene
InitDraws(s) ==
    IF IsOlder(s)
    THEN CASE s.dtype = "bool" -> BOOLEAN
           [] s.dtype = "list" -> s.values
           [] OTHER -> s.min_value .. s.max_value
    ELSE IF s.cls = "ListGene" THEN s.values ELSE s.min_value .. s.max_value

MutateDraws(s) ==
    IF IsOlder(s)
    THEN CASE s.dtype = "bool" -> {FALSE}
           [] s.dtype = "list" -> s.values
           [] s.dtype = "int" -> {-1, 1}
           [] s.dtype = "float" -> (-(2 * s.granularity)) .. (2 * s.granularity)
    ELSE IF s.cls = "ListGene" THEN s.values
         ELSE (-(2 * s.granularity)) .. (2 * s.granularity)

RandomDraws == {0, 99}

GeneNames(specifications) == {specifications[i].name : i \in DOMAIN specifications}

SpecNamed(specifications, name) ==
    specifications[CHOOSE i \in DOMAIN specifications : specifications[i].name = name]

IndexNamed(specifications, name) ==
    CHOOSE i \in DOMAIN specifications : specifications[i].name = name

\* Genome.create of either module: a dict of one initialized value per gene
Genome_create(specifications, draws) ==
    [name \in GeneNames(specifications) |->
        LET i == IndexNamed(specifications, name)
            s == specifications[i]
        IN IF IsOlder(s) THEN initialize(s, draws[i])
           ELSE IF s.cls = "ListGene" THEN ListGene_initialize(s, draws[i])
           ELSE Gene_initialize(s, draws[i])]

\* Genome.mutate of either module: every gene is mutated with draws of its own
Genome_mutate(specifications, genes, draws) ==
    [name \in GeneNames(specifications) |->
        LET i == IndexNamed(specifications, name)
            s == specifications[i]
        IN IF IsOlder(s) THEN mutate_gene(s, genes[name], draws[i].random, draws[i].draw)
           ELSE IF s.cls = "ListGene"
           THEN ListGene_mutate(s, genes[name], draws[i].random, draws[i].draw)
           ELSE Gene_mutate(s, genes[name], draws[i].random, draws[i].draw)]

(***************************************************************************)
(* SpecGenome: a Genome class with two genes: those of the tests (a Gene   *)
(* between -1 and 1 and a ListGene), a Gene whose bounds have more digits  *)
(* than its precision, and the older genomes with an int and a bool gene,  *)
(* with an int gene whose range is a single value and a float gene, and    *)
(* with a list gene and a float gene.  create makes a genome, which is     *)
(* then mutated up to MaxMutations times; pool holds the genome, pc the    *)
(* class and the number of mutations made.                                 *)
(***************************************************************************)
GenomeClasses ==
    {<<Gene("x", -TicksPerUnit, TicksPerUnit, 50, 1, 0), ListGene("z", {3, 4}, 50)>>,
     <<Gene("x", 1 - TicksPerUnit, TicksPerUnit + 1, 50, 1, 0), ListGene("z", {0, 1, 2}, 50)>>,
     <<[dtype |-> "int", name |-> "n", volatility |-> 50, min_value |-> 0, max_value |-> 2],
       [dtype |-> "bool", name |-> "b", volatility |-> 50]>>,
     <<[dtype |-> "int", name |-> "n", volatility |-> 50, min_value |-> 1, max_value |-> 1],
       [dtype |-> "float", name |-> "f", volatility |-> 50, min_value |-> -TicksPerUnit,
        max_value |-> TicksPerUnit, granularity |-> 1, digits |-> 0]>>,
     <<[dtype |-> "list", name |-> "l", volatility |-> 50, values |-> {0, 2, 4}],
       [dtype |-> "float", name |-> "f", volatility |-> 50, min_value |-> 0,
        max_value |-> TicksPerUnit, granularity |-> 1, digits |-> 1]>>}

InitGenome ==
    /\ pc \in {[specifications |-> c, mutations |-> 0] : c \in GenomeClasses}
    /\ pool = <<>>
    /\ n_players = MinPlayers
    /\ data = <<>>
    /\ missions = <<>>
    /\ cards = <<>>
    /\ turn = -1
    /\ players = <<>>
    /\ ratings = <<>>
    /\ last = NoCall

GenomeCreate ==
    /\ last.op = "none"
    /\ pool = <<>>
    /\ \E draws \in InitDraws(pc.specifications[1]) \X InitDraws(pc.specifications[2]) :
          /\ pool' = <<Genome_create(pc.specifications, draws)>>
          /\ last' = [NoCall EXCEPT !.op = "create", !.dice = draws, !.ret = pool']
    /\ UNCHANGED <<n_players, data, missions, cards, turn, players, pc, ratings>>

GenomeMutate ==
    /\ last.op = "none"
    /\ pool # <<>>
    /\ pc.mutations < MaxMutations
    /\ \E draws \in [random : RandomDraws, draw : MutateDraws(pc.specifications[1])]
                        \X [random : RandomDraws, draw : MutateDraws(pc.specifications[2])] :
          /\ pool' = <<Genome_mutate(pc.specifications, pool[1], draws)>>
          /\ last' = [NoCall EXCEPT !.op = "mutate", !.args = pool, !.dice = draws,
                                    !.ret = pool']
    /\ pc' = [pc EXCEPT !.mutations = @ + 1]
    /\ UNCHANGED <<n_players, data, missions, cards, turn, players, ratings>>

NextGenome == GenomeCreate \/ GenomeMutate \/ Proceed

SpecGenome == InitGenome /\ [][NextGenome]_vars

\* the declared range of a gene
InBounds(s, v) ==
    IF IsOlder(s)
    THEN CASE s.dtype = "bool" -> v \in BOOLEAN
           [] s.dtype = "list" -> v \in s.values
           [] OTHER -> s.min_value <= v /\ v <= s.max_value
    ELSE IF s.cls = "ListGene" THEN v \in s.values
         ELSE s.min_value <= v /\ v <= s.max_value

AllInBounds(specifications, genes) ==
    \A i \in DOMAIN specifications : InBounds(specifications[i], genes[specifications[i].name])

\* ---------------------------------------------------------------------
\* C31: every gene of a created genome lies within its declared bounds,
\* and so does every gene of a genome mutated from one whose genes all
\* lie within theirs, whatever the declared range (a range of a single
\* value included).
C31_GenesInBounds ==
    [][/\ CallIs("create") => AllInBounds(pc.specifications, pool'[1])
       /\ (CallIs("mutate") /\ AllInBounds(pc.specifications, pool[1])) =>
              AllInBounds(pc.specifications, pool'[1])]_vars

\* the value the mutation of a Gene or of a float gene is said to return
StatedMutation(s, value, random, draw) ==
    IF ~(random < s.volatility) THEN value
    ELSE IF IsOlder(s) /\ s.dtype = "float"
    THEN round(Min(Max(value + draw, s.min_value), s.max_value), s.digits)
    ELSE IF ~IsOlder(s) /\ s.cls = "Gene"
    THEN round(Min(Max(value + draw, s.min_value), s.max_value), s.precision)
    ELSE Genome_mutate(<<s>>, [name \in {s.name} |-> value],
                       <<[random |-> random, draw |-> draw]>>)[s.name]

\* ---------------------------------------------------------------------
\* C32: Genome.mutate gives every gene the outcome of its own draws: the
\* value it had when random() is not below the gene's volatility, and
\* else, for a Gene or a float gene, the value plus the gauss step,
\* clamped to [min_value, max_value] and rounded to the precision.
C32_MutationApplied ==
    [][CallIs("mutate") =>
          \A i \in DOMAIN pc.specifications :
             LET s == pc.specifications[i]
             IN pool'[1][s.name] =
                   StatedMutation(s, pool[1][s.name], last'.dice[i].random, last'.dice[i].draw)]_vars

====
